---- MODULE Spec2Model ----
(***************************************************************************)
(* A model of the NCHWc convolution and pooling engine of                  *)
(* onnxruntime/core/mlas/lib/snchwc.cpp: the shape preprocessor            *)
(* (MlasPrepareNchwcWorkBlock), the work partitioner (PartitionWork), the  *)
(* algorithm selection and thread dispatch of MlasNchwcConv and            *)
(* MlasNchwcPool, and the five executors, each worker stepping one         *)
(* iteration of its while loop at a time; and of CPUAllocator::Alloc of    *)
(* onnxruntime/core/framework/allocator.cc.                                *)
(*                                                                         *)
(* Buffer pointers are element offsets from the base of their tensor.      *)
(* size_t arithmetic that can wrap is taken modulo SizeModulus, a scaled   *)
(* down stand-in for 2^64 that stays far above every value of the model.   *)
(***************************************************************************)
EXTENDS Integers, Sequences, FiniteSets, TLC

VARIABLES
    pc,              \* position of the front-end (MlasNchwcConv / MlasNchwcPool)
    args,            \* the arguments of the entry point and the environment
    WorkBlock,       \* MLAS_NCHWC_CONV_WORK_BLOCK / MLAS_NCHWC_POOL_WORK_BLOCK
    ThreadedRoutine, \* the executor chosen by the front-end
    workers,         \* per thread index: the algorithm object and loop position
    Output,          \* the output tensor, per row block of BlockSize*OutputWidth
    pwIn,            \* PartitionWork applied as a pure function: inputs
    pwOut,           \* PartitionWork applied as a pure function: results
    allocIn,         \* CPUAllocator::Alloc: the request and the build
    allocOut         \* CPUAllocator::Alloc: how the call ended

vars == <<pc, args, WorkBlock, ThreadedRoutine, workers, Output, pwIn, pwOut, allocIn, allocOut>>

dispatchVars == <<pc, args, WorkBlock, ThreadedRoutine, workers, Output>>

allocatorVars == <<allocIn, allocOut>>

functionVars == <<pwIn, pwOut, allocIn, allocOut>>

(***************************************************************************)
(* Bounds of the model.                                                    *)
(***************************************************************************)
MaxThreads == 3

MaxBatch == 2

MaxPartitionThreads == 4

MaxPartitionWork == 9

MaxInput == 4

MaxKernel == 4

MaxDilation == 2

MaxPadding == 3

MaxPaddingRight == 1

MaxStride == 2

MaxAllocSize == 4

MaxAllocBlocks == 2

(***************************************************************************)
(* Program constants.                                                      *)
(***************************************************************************)
BlockSize == 8

FilterSetSize == 4

MaximumInputChannelBatch == 128

nullptr == -1

SizeModulus == 2^20

NullShape == <<>>

HeightShapeIndex == 0

WidthShapeIndex == 1

(***************************************************************************)
(* size_t arithmetic.                                                      *)
(***************************************************************************)
SizeT(x) == x % SizeModulus

SubSize(a, b) == (a - b) % SizeModulus

Min(a, b) == IF a <= b THEN a ELSE b

(***************************************************************************)
(* MlasPrepareNchwcWorkBlock, one spatial dimension.                       *)
(***************************************************************************)
SpanValueOf(DilationValue, KernelValue) ==
    SizeT(DilationValue * SubSize(KernelValue, 1) + 1)

OutputCountOfUnguarded(InputValue, SpanValue, StrideValue) ==
    SubSize(InputValue, SpanValue) \div StrideValue + 1

OutputCountOf(InputValue, SpanValue, StrideValue) ==
    IF InputValue >= SpanValue
    THEN (InputValue - SpanValue) \div StrideValue + 1
    ELSE 0

OutputCountWithLeftPadOfZeroWhenShort(InputValue, PaddingLeftValue, SpanValue, StrideValue, OutputValue) ==
    IF InputValue + PaddingLeftValue >= SpanValue
    THEN (InputValue + PaddingLeftValue - SpanValue) \div StrideValue + 1
    ELSE 0

OutputCountWithLeftPadOf(InputValue, PaddingLeftValue, SpanValue, StrideValue, OutputValue) ==
    IF InputValue + PaddingLeftValue >= SpanValue
    THEN (InputValue + PaddingLeftValue - SpanValue) \div StrideValue + 1
    ELSE OutputValue

NeedsLeftPadFixupWheneverPadded(OutputCountLeftPad, PaddingLeftValue) ==
    PaddingLeftValue > 0

NeedsLeftPadFixup(OutputCountLeftPad, PaddingLeftValue) ==
    OutputCountLeftPad = 0 /\ PaddingLeftValue > 0

OutputCounts(InputValue, OutputValue, KernelValue, DilationValue, PaddingLeftValue, StrideValue) ==
    LET SpanValue == SpanValueOf(DilationValue, KernelValue)
        OutputCount == OutputCountOf(InputValue, SpanValue, StrideValue)
        OutputCountWithLeftPad ==
            OutputCountWithLeftPadOf(InputValue, PaddingLeftValue, SpanValue,
                                     StrideValue, OutputValue)
        OutputCountLeftPad == SubSize(OutputCountWithLeftPad, OutputCount)
        fixup == NeedsLeftPadFixup(OutputCountLeftPad, PaddingLeftValue)
    IN  [ OutputCountLeftPad  |-> IF fixup THEN 1 ELSE OutputCountLeftPad,
          OutputCount         |-> IF fixup THEN SubSize(OutputCount, 1) ELSE OutputCount,
          OutputCountRightPad |-> SubSize(OutputValue, OutputCountWithLeftPad) ]

(***************************************************************************)
(* MlasPrepareNchwcWorkBlock: the fields it stores.  Arrays are functions  *)
(* indexed from 0 as in the source; a null array argument is NullShape.    *)
(* InputShape and OutputShape are the whole shapes (N, C, d0, ..., dD-1).  *)
(***************************************************************************)
Array(s) == [i \in 0..(Len(s) - 1) |-> s[i + 1]]

RECURSIVE SizeProduct(_, _)
SizeProduct(shape, n) ==
    IF n = 0 THEN 1 ELSE SizeT(SizeProduct(shape, n - 1) * shape[n - 1])

MlasPrepareNchwcWorkBlock(Dimensions, InputShape, KernelShape, DilationShape, Padding, StrideShape, OutputShape) ==
    LET dims == 0..(Dimensions - 1)
        InputValue  == [dim \in dims |-> InputShape[dim + 2]]
        OutputValue == [dim \in dims |-> OutputShape[dim + 2]]
        Kernel == [dim \in dims |->
                     IF KernelShape # NullShape THEN KernelShape[dim] ELSE InputValue[dim]]
        Dilation == [dim \in dims |->
                     IF DilationShape # NullShape THEN DilationShape[dim] ELSE 1]
        Pad == [i \in 0..(2 * Dimensions - 1) |->
                     IF Padding # NullShape THEN Padding[i] ELSE 0]
        Stride == [dim \in dims |->
                     IF StrideShape # NullShape THEN StrideShape[dim] ELSE 1]
        Counts == [dim \in dims |->
                     OutputCounts(InputValue[dim], OutputValue[dim], Kernel[dim],
                                  Dilation[dim], Pad[dim], Stride[dim])]
    IN  [ BatchCount          |-> InputShape[0],
          InputChannels       |-> InputShape[1],
          OutputChannels      |-> OutputShape[1],
          InputShape          |-> InputValue,
          OutputShape         |-> OutputValue,
          KernelShape         |-> Kernel,
          DilationShape       |-> Dilation,
          Padding             |-> Pad,
          StrideShape         |-> Stride,
          OutputCountLeftPad  |-> [dim \in dims |-> Counts[dim].OutputCountLeftPad],
          OutputCount         |-> [dim \in dims |-> Counts[dim].OutputCount],
          OutputCountRightPad |-> [dim \in dims |-> Counts[dim].OutputCountRightPad],
          InputSize           |-> SizeProduct(InputValue, Dimensions),
          OutputSize          |-> SizeProduct(OutputValue, Dimensions) ]

(***************************************************************************)
(* MLAS_NCHWC_NN_ALGORITHM::PartitionWork.                                 *)
(***************************************************************************)
PartitionWorkIndexNoExtra(Index, tids, TotalWork) ==
    LET WorkPerThread == TotalWork \div tids
        WorkPerThreadExtra == TotalWork % tids
    IN  IF Index < WorkPerThreadExtra
        THEN (WorkPerThread + 1) * Index
        ELSE WorkPerThread * Index

PartitionWorkIndex(Index, tids, TotalWork) ==
    LET WorkPerThread == TotalWork \div tids
        WorkPerThreadExtra == TotalWork % tids
    IN  IF Index < WorkPerThreadExtra
        THEN (WorkPerThread + 1) * Index
        ELSE WorkPerThread * Index + WorkPerThreadExtra

PartitionWorkRemaining(Index, tids, TotalWork) ==
    LET WorkPerThread == TotalWork \div tids
        WorkPerThreadExtra == TotalWork % tids
    IN  IF Index < WorkPerThreadExtra
        THEN WorkPerThread + 1
        ELSE WorkPerThread

PartitionWork(Index, tids, TotalWork) ==
    [ WorkIndex     |-> PartitionWorkIndex(Index, tids, TotalWork),
      WorkRemaining |-> PartitionWorkRemaining(Index, tids, TotalWork) ]

(***************************************************************************)
(* The kernel flag word and the activation kinds.                          *)
(***************************************************************************)
MlasIdentityActivation == "Identity"

MlasReluActivation == "Relu"

MlasClipActivation == "Clip"

HasFlag(KernelFlags, bit) == (KernelFlags \div bit) % 2 = 1

(***************************************************************************)
(* The fields MLAS_NCHWC_NN_ALGORITHM captures from the work block.        *)
(***************************************************************************)
InputHeight(wb) == wb.InputShape[HeightShapeIndex]

InputWidth(wb) == wb.InputShape[WidthShapeIndex]

OutputHeight(wb) == wb.OutputShape[HeightShapeIndex]

OutputWidth(wb) == wb.OutputShape[WidthShapeIndex]

KernelHeight(wb) == wb.KernelShape[HeightShapeIndex]

KernelWidth(wb) == wb.KernelShape[WidthShapeIndex]

KernelSize(wb) == KernelHeight(wb) * KernelWidth(wb)

DilationHeight(wb) == wb.DilationShape[HeightShapeIndex]

DilationWidth(wb) == wb.DilationShape[WidthShapeIndex]

PaddingLeftY(wb) == wb.Padding[HeightShapeIndex]

PaddingLeftX(wb) == wb.Padding[WidthShapeIndex]

StrideHeight(wb) == wb.StrideShape[HeightShapeIndex]

StrideWidth(wb) == wb.StrideShape[WidthShapeIndex]

OutputCountLeftPadY(wb) == wb.OutputCountLeftPad[HeightShapeIndex]

OutputCountY(wb) == wb.OutputCount[HeightShapeIndex]

OutputCountLeftPadX(wb) == wb.OutputCountLeftPad[WidthShapeIndex]

OutputCountX(wb) == wb.OutputCount[WidthShapeIndex]

OutputCountRightPadX(wb) == wb.OutputCountRightPad[WidthShapeIndex]

BlockedOutputWidth(wb) == BlockSize * OutputWidth(wb)

(***************************************************************************)
(* MLAS_NCHWC_CONV_ALGORITHM::ComputeEffectiveKernel.  st holds *ih,       *)
(* *EffectiveKernelHeight and *filter; the walk is the for loop over kh.   *)
(***************************************************************************)
InPaddingRowsNever(wb, ph) == FALSE

InPaddingRows(wb, ph) == SubSize(ph, OutputCountLeftPadY(wb)) >= OutputCountY(wb)

RECURSIVE EffectiveKernelWalkAdvancingOnEveryTrim(_, _, _, _, _)
EffectiveKernelWalkAdvancingOnEveryTrim(wb, FilterStride, kh, ihStep, st) ==
    IF kh >= KernelHeight(wb)
    THEN st
    ELSE LET next == IF ihStep >= InputHeight(wb)
                     THEN [ ih |-> SizeT(st.ih + DilationHeight(wb)),
                            filter |-> st.filter + FilterStride,
                            EffectiveKernelHeight |-> SubSize(st.EffectiveKernelHeight, 1) ]
                     ELSE st
         IN  EffectiveKernelWalkAdvancingOnEveryTrim(wb, FilterStride, kh + 1,
                                                     SizeT(ihStep + DilationHeight(wb)), next)

RECURSIVE EffectiveKernelWalk(_, _, _, _, _)
EffectiveKernelWalk(wb, FilterStride, kh, ihStep, st) ==
    IF kh >= KernelHeight(wb)
    THEN st
    ELSE LET leading == ihStep = st.ih
             next == IF ihStep >= InputHeight(wb)
                     THEN [ ih |-> IF leading THEN SizeT(st.ih + DilationHeight(wb)) ELSE st.ih,
                            filter |-> IF leading THEN st.filter + FilterStride ELSE st.filter,
                            EffectiveKernelHeight |-> SubSize(st.EffectiveKernelHeight, 1) ]
                     ELSE st
         IN  EffectiveKernelWalk(wb, FilterStride, kh + 1,
                                 SizeT(ihStep + DilationHeight(wb)), next)

ComputeEffectiveKernel(wb, ph, FilterStride, filter) ==
    LET ih == SubSize(ph * StrideHeight(wb), PaddingLeftY(wb))
        st == [ ih |-> ih, filter |-> filter, EffectiveKernelHeight |-> KernelHeight(wb) ]
    IN  IF InPaddingRows(wb, ph)
        THEN EffectiveKernelWalk(wb, FilterStride, 0, ih, st)
        ELSE st

(***************************************************************************)
(* MLAS_NCHWC_GROUPED_CONV_ALGORITHM: the state a worker keeps (ph,        *)
(* FilterSet, Group, WorkRemaining, FilterCount and its own copies of the  *)
(* buffer pointers), PrepareWork and CompleteWork.                         *)
(***************************************************************************)
FilterSetCount(wb) ==
    (wb.OutputChannels + (BlockSize * FilterSetSize) - 1) \div (BlockSize * FilterSetSize)

ComputeFilterCountFullSets(wb, FilterSet) == FilterSetSize

ComputeFilterCount(wb, FilterSet) ==
    Min(FilterSetSize, SubSize(wb.OutputChannels \div BlockSize, FilterSet * FilterSetSize))

GroupedTotalWorkOneBatch(wb) ==
    wb.GroupCount * FilterSetCount(wb) * OutputHeight(wb)

GroupedTotalWork(wb) ==
    wb.BatchCount * wb.GroupCount * FilterSetCount(wb) * OutputHeight(wb)

PrepareWorkFilterOfGroup(wb, Index) ==
    LET part == PartitionWork(Index, wb.tids, GroupedTotalWork(wb))
        WorkIndex == part.WorkIndex
        BatchGroupFilterSet == WorkIndex \div OutputHeight(wb)
        FilterSet == BatchGroupFilterSet % FilterSetCount(wb)
        BatchGroup == BatchGroupFilterSet \div FilterSetCount(wb)
        Group == BatchGroup % wb.GroupCount
    IN  [ pc            |-> "loop",
          WorkIndex     |-> WorkIndex,
          WorkRemaining |-> part.WorkRemaining,
          ph            |-> WorkIndex % OutputHeight(wb),
          FilterSet     |-> FilterSet,
          Group         |-> Group,
          FilterCount   |-> ComputeFilterCount(wb, FilterSet),
          Input         |-> wb.Input + BatchGroup * wb.InputChannels * wb.InputSize,
          Output        |-> wb.Output + BatchGroup * wb.OutputChannels * wb.OutputSize
                              + BlockSize * FilterSet * FilterSetSize * wb.OutputSize,
          Filter        |-> wb.Filter
                              + Group * wb.OutputChannels * wb.InputChannels * KernelSize(wb),
          Bias          |-> IF wb.Bias # nullptr
                            THEN wb.Bias + Group * wb.OutputChannels
                                         + BlockSize * FilterSet * FilterSetSize
                            ELSE nullptr,
          calls         |-> <<>> ]

PrepareWork(wb, Index) ==
    LET part == PartitionWork(Index, wb.tids, GroupedTotalWork(wb))
        WorkIndex == part.WorkIndex
        BatchGroupFilterSet == WorkIndex \div OutputHeight(wb)
        FilterSet == BatchGroupFilterSet % FilterSetCount(wb)
        BatchGroup == BatchGroupFilterSet \div FilterSetCount(wb)
        Group == BatchGroup % wb.GroupCount
    IN  [ pc            |-> "loop",
          WorkIndex     |-> WorkIndex,
          WorkRemaining |-> part.WorkRemaining,
          ph            |-> WorkIndex % OutputHeight(wb),
          FilterSet     |-> FilterSet,
          Group         |-> Group,
          FilterCount   |-> ComputeFilterCount(wb, FilterSet),
          Input         |-> wb.Input + BatchGroup * wb.InputChannels * wb.InputSize,
          Output        |-> wb.Output + BatchGroup * wb.OutputChannels * wb.OutputSize
                              + BlockSize * FilterSet * FilterSetSize * wb.OutputSize,
          Filter        |-> wb.Filter
                              + Group * wb.OutputChannels * wb.InputChannels * KernelSize(wb)
                              + BlockSize * FilterSet * FilterSetSize * wb.InputChannels * KernelSize(wb),
          Bias          |-> IF wb.Bias # nullptr
                            THEN wb.Bias + Group * wb.OutputChannels
                                         + BlockSize * FilterSet * FilterSetSize
                            ELSE nullptr,
          calls         |-> <<>> ]

CompleteWorkKeepingFilter(wb, w, WorkThisIteration) ==
    LET remaining == SubSize(w.WorkRemaining, WorkThisIteration)
        ph == w.ph + WorkThisIteration
        BlockedFilterCount == BlockSize * w.FilterCount
        setsDone == w.FilterSet + 1 = FilterSetCount(wb)
        groupsDone == setsDone /\ w.Group + 1 = wb.GroupCount
        FilterSet == IF setsDone THEN 0 ELSE w.FilterSet + 1
    IN  IF ph = OutputHeight(wb)
        THEN [ w EXCEPT
                 !.WorkRemaining = remaining,
                 !.ph = 0,
                 !.Output = w.Output + BlockedFilterCount * wb.OutputSize,
                 !.Filter = w.Filter + BlockedFilterCount * wb.InputChannels * KernelSize(wb),
                 !.Bias = IF groupsDone
                          THEN wb.Bias
                          ELSE IF w.Bias # nullptr
                               THEN w.Bias + BlockedFilterCount
                               ELSE w.Bias,
                 !.Input = IF setsDone
                           THEN w.Input + wb.InputChannels * wb.InputSize
                           ELSE w.Input,
                 !.Group = IF setsDone
                           THEN (IF groupsDone THEN 0 ELSE w.Group + 1)
                           ELSE w.Group,
                 !.FilterSet = FilterSet,
                 !.FilterCount = ComputeFilterCount(wb, FilterSet) ]
        ELSE [ w EXCEPT !.WorkRemaining = remaining, !.ph = ph ]

CompleteWorkResetEveryGroup(wb, w, WorkThisIteration) ==
    LET remaining == SubSize(w.WorkRemaining, WorkThisIteration)
        ph == w.ph + WorkThisIteration
        BlockedFilterCount == BlockSize * w.FilterCount
        setsDone == w.FilterSet + 1 = FilterSetCount(wb)
        groupsDone == setsDone /\ w.Group + 1 = wb.GroupCount
        FilterSet == IF setsDone THEN 0 ELSE w.FilterSet + 1
    IN  IF ph = OutputHeight(wb)
        THEN [ w EXCEPT
                 !.WorkRemaining = remaining,
                 !.ph = 0,
                 !.Output = w.Output + BlockedFilterCount * wb.OutputSize,
                 !.Filter = IF setsDone
                            THEN wb.Filter
                            ELSE w.Filter + BlockedFilterCount * wb.InputChannels * KernelSize(wb),
                 !.Bias = IF setsDone
                          THEN wb.Bias
                          ELSE IF w.Bias # nullptr
                               THEN w.Bias + BlockedFilterCount
                               ELSE w.Bias,
                 !.Input = IF setsDone
                           THEN w.Input + wb.InputChannels * wb.InputSize
                           ELSE w.Input,
                 !.Group = IF setsDone
                           THEN (IF groupsDone THEN 0 ELSE w.Group + 1)
                           ELSE w.Group,
                 !.FilterSet = FilterSet,
                 !.FilterCount = ComputeFilterCount(wb, FilterSet) ]
        ELSE [ w EXCEPT !.WorkRemaining = remaining, !.ph = ph ]

CompleteWork(wb, w, WorkThisIteration) ==
    LET remaining == SubSize(w.WorkRemaining, WorkThisIteration)
        ph == w.ph + WorkThisIteration
        BlockedFilterCount == BlockSize * w.FilterCount
        setsDone == w.FilterSet + 1 = FilterSetCount(wb)
        groupsDone == setsDone /\ w.Group + 1 = wb.GroupCount
        FilterSet == IF setsDone THEN 0 ELSE w.FilterSet + 1
    IN  IF ph = OutputHeight(wb)
        THEN [ w EXCEPT
                 !.WorkRemaining = remaining,
                 !.ph = 0,
                 !.Output = w.Output + BlockedFilterCount * wb.OutputSize,
                 !.Filter = IF groupsDone
                            THEN wb.Filter
                            ELSE w.Filter + BlockedFilterCount * wb.InputChannels * KernelSize(wb),
                 !.Bias = IF groupsDone
                          THEN wb.Bias
                          ELSE IF w.Bias # nullptr
                               THEN w.Bias + BlockedFilterCount
                               ELSE w.Bias,
                 !.Input = IF setsDone
                           THEN w.Input + wb.InputChannels * wb.InputSize
                           ELSE w.Input,
                 !.Group = IF setsDone
                           THEN (IF groupsDone THEN 0 ELSE w.Group + 1)
                           ELSE w.Group,
                 !.FilterSet = FilterSet,
                 !.FilterCount = ComputeFilterCount(wb, FilterSet) ]
        ELSE [ w EXCEPT !.WorkRemaining = remaining, !.ph = ph ]

(***************************************************************************)
(* The flag word each executor builds for one microkernel call.            *)
(***************************************************************************)
ActivationFlagsDeferringRelu(wb) ==
    IF wb.ActivationKind # MlasIdentityActivation THEN 8 ELSE 0

ActivationFlags(wb) ==
    IF wb.ActivationKind = MlasReluActivation
    THEN 4
    ELSE IF wb.ActivationKind # MlasIdentityActivation THEN 8 ELSE 0

NchwcKernelFlagsBiasEveryBlock(wb, Bias, ic) ==
    (IF ic # 0 \/ ~wb.ZeroMode THEN 1 ELSE 0)
    + (IF Bias # nullptr THEN 2 ELSE 0)
    + (IF ic + BlockSize = wb.InputChannels THEN ActivationFlags(wb) ELSE 0)

NchwcKernelFlags(wb, Bias, ic) ==
    (IF ic # 0 \/ ~wb.ZeroMode THEN 1 ELSE 0)
    + (IF ic + BlockSize = wb.InputChannels
       THEN (IF Bias # nullptr THEN 2 ELSE 0) + ActivationFlags(wb)
       ELSE 0)

NchwKernelFlagsOverwriteEveryChannel(wb, Bias, icc) ==
    (IF ~wb.ZeroMode THEN 1 ELSE 0)
    + (IF icc + 1 = wb.InputChannels
       THEN (IF Bias # nullptr THEN 2 ELSE 0) + ActivationFlags(wb)
       ELSE 0)

NchwKernelFlags(wb, Bias, icc) ==
    (IF icc # 0 \/ ~wb.ZeroMode THEN 1 ELSE 0)
    + (IF icc + 1 = wb.InputChannels
       THEN (IF Bias # nullptr THEN 2 ELSE 0) + ActivationFlags(wb)
       ELSE 0)

PointwiseKernelFlagsOverwriteFirst(wb, Bias, ic, InputChannelBatch) ==
    (IF ic # 0 THEN 1 ELSE 0)
    + (IF ic + InputChannelBatch = wb.InputChannels
       THEN (IF Bias # nullptr THEN 2 ELSE 0) + ActivationFlags(wb)
       ELSE 0)

PointwiseKernelFlags(wb, Bias, ic, InputChannelBatch) ==
    (IF ic # 0 \/ ~wb.ZeroMode THEN 1 ELSE 0)
    + (IF ic + InputChannelBatch = wb.InputChannels
       THEN (IF Bias # nullptr THEN 2 ELSE 0) + ActivationFlags(wb)
       ELSE 0)

DepthwiseKernelFlagsAccumulate(wb, Bias) ==
    1 + (IF Bias # nullptr THEN 2 ELSE 0) + ActivationFlags(wb)

DepthwiseKernelFlags(wb, Bias) ==
    (IF ~wb.ZeroMode THEN 1 ELSE 0)
    + (IF Bias # nullptr THEN 2 ELSE 0)
    + ActivationFlags(wb)

(***************************************************************************)
(* Pointer arithmetic: a size_t element count added to a pointer wraps, so *)
(* a count that wrapped below zero moves the pointer backwards.            *)
(***************************************************************************)
ToSigned(x) == IF x >= SizeModulus \div 2 THEN x - SizeModulus ELSE x

PointerAdd(pointer, count) == pointer + ToSigned(SizeT(count))

(***************************************************************************)
(* One microkernel call, as the executor issues it: the arguments that     *)
(* name buffers, rows and flags.  DoActivation says whether the executor   *)
(* follows the call with DoActivation(Output, FilterCount, ActivationWidth)*)
(***************************************************************************)
KernelCall(kernel, tile, row, InputPadded, InputBase, ek, Output_, FilterCount, OutputCount, Bias, KernelFlags, ActivationWidth) ==
    [ kernel                |-> kernel,
      ic                    |-> tile.ic,
      InputChannels         |-> tile.InputChannels,
      row                   |-> row,
      Input                 |-> InputPadded,
      InputBase             |-> InputBase,
      ih                    |-> ek.ih,
      EffectiveKernelHeight |-> ek.EffectiveKernelHeight,
      Filter                |-> ek.filter,
      Output                |-> Output_,
      FilterCount           |-> FilterCount,
      OutputCount           |-> OutputCount,
      Bias                  |-> Bias,
      KernelFlags           |-> KernelFlags,
      DoActivation          |-> HasFlag(KernelFlags, 8),
      ActivationWidth       |-> ActivationWidth ]

OutputColumns(wb) ==
    SizeT(OutputCountLeftPadX(wb) + OutputCountX(wb) + OutputCountRightPadX(wb))

(***************************************************************************)
(* MLAS_NCHWC_CONV_NCHWC_ALGORITHM::Execute, one iteration of the while    *)
(* loop: the calls it issues, channel block by channel block and row by    *)
(* row, and the state CompleteWork leaves.                                 *)
(***************************************************************************)
NchwcWorkThisIterationToImageEnd(wb, w) == SubSize(OutputHeight(wb), w.ph)

NchwcWorkThisIteration(wb, w) == Min(w.WorkRemaining, SubSize(OutputHeight(wb), w.ph))

NchwcCall(wb, w, ic, work) ==
    LET input == w.Input + ic * wb.InputSize
        output == w.Output + w.ph * BlockedOutputWidth(wb) + work * BlockedOutputWidth(wb)
        ek == ComputeEffectiveKernel(wb, w.ph + work, BlockSize * BlockSize * KernelWidth(wb),
                                     w.Filter + BlockSize * ic * KernelSize(wb))
    IN  KernelCall("ConvNchwc", [ic |-> ic, InputChannels |-> BlockSize], w.ph + work,
                   PointerAdd(input, BlockSize * SubSize(ek.ih * InputWidth(wb), PaddingLeftX(wb))),
                   PointerAdd(input, BlockSize * (ek.ih * InputWidth(wb))),
                   ek, output, w.FilterCount, OutputColumns(wb), w.Bias,
                   NchwcKernelFlags(wb, w.Bias, ic), BlockedOutputWidth(wb))

NchwcCallsDescendingBlocks(wb, w) ==
    LET WorkThisIteration == NchwcWorkThisIteration(wb, w)
        blocks == (wb.InputChannels + BlockSize - 1) \div BlockSize
    IN  [ n \in 1..(blocks * WorkThisIteration) |->
            NchwcCall(wb, w, (blocks - 1 - ((n - 1) \div WorkThisIteration)) * BlockSize,
                      (n - 1) % WorkThisIteration) ]

NchwcCalls(wb, w) ==
    LET WorkThisIteration == NchwcWorkThisIteration(wb, w)
        blocks == (wb.InputChannels + BlockSize - 1) \div BlockSize
    IN  [ n \in 1..(blocks * WorkThisIteration) |->
            NchwcCall(wb, w, ((n - 1) \div WorkThisIteration) * BlockSize,
                      (n - 1) % WorkThisIteration) ]

NchwcIteration(wb, w) ==
    [ CompleteWork(wb, w, NchwcWorkThisIteration(wb, w)) EXCEPT !.calls = NchwcCalls(wb, w) ]

(***************************************************************************)
(* MLAS_NCHWC_CONV_NCHW_ALGORITHM::Execute, one iteration: one output row, *)
(* one call per input channel.                                             *)
(***************************************************************************)
NchwCall(wb, w, icc) ==
    LET ek0 == ComputeEffectiveKernel(wb, w.ph, BlockSize * KernelWidth(wb), w.Filter)
        ek == [ ek0 EXCEPT !.filter = ek0.filter + icc * BlockSize * KernelSize(wb) ]
        input == w.Input + icc * wb.InputSize
        output == w.Output + BlockSize * w.ph * OutputWidth(wb)
    IN  KernelCall("ConvNchw", [ic |-> icc, InputChannels |-> 1], w.ph,
                   PointerAdd(input, SubSize(ek.ih * InputWidth(wb), PaddingLeftX(wb))),
                   PointerAdd(input, ek.ih * InputWidth(wb)),
                   ek, output, w.FilterCount, OutputColumns(wb), w.Bias,
                   NchwKernelFlags(wb, w.Bias, icc), BlockedOutputWidth(wb))

NchwCalls(wb, w) == [ n \in 1..wb.InputChannels |-> NchwCall(wb, w, n - 1) ]

NchwIteration(wb, w) ==
    [ CompleteWork(wb, w, 1) EXCEPT !.calls = NchwCalls(wb, w) ]

(***************************************************************************)
(* MLAS_NCHWC_CONV_POINTWISE_ALGORITHM::Execute, one iteration: one or     *)
(* several output rows as one strip, one call per input channel batch.     *)
(***************************************************************************)
PointwiseWorkThisIterationAnyStride(wb, w) ==
    Min(w.WorkRemaining, SubSize(OutputHeight(wb), w.ph))

PointwiseWorkThisIteration(wb, w) ==
    IF StrideHeight(wb) = 1 /\ StrideWidth(wb) = 1
    THEN Min(w.WorkRemaining, SubSize(OutputHeight(wb), w.ph))
    ELSE 1

PointwiseActivationWidthOneRow(wb, OutputThisIteration) == BlockSize * OutputWidth(wb)

PointwiseActivationWidth(wb, OutputThisIteration) == BlockSize * OutputThisIteration

PointwiseCall(wb, w, batch) ==
    LET ic == batch * MaximumInputChannelBatch
        InputChannelBatch == Min(SubSize(wb.InputChannels, ic), MaximumInputChannelBatch)
        OutputThisIteration == PointwiseWorkThisIteration(wb, w) * OutputWidth(wb)
        input == w.Input + BlockSize * (w.ph * StrideHeight(wb) * InputWidth(wb))
                     + batch * (MaximumInputChannelBatch * wb.InputSize)
        filter == w.Filter + batch * (BlockSize * MaximumInputChannelBatch)
        output == w.Output + BlockSize * w.ph * OutputWidth(wb)
        ek == [ ih |-> w.ph * StrideHeight(wb), filter |-> filter,
                EffectiveKernelHeight |-> KernelHeight(wb) ]
    IN  KernelCall("ConvPointwise", [ic |-> ic, InputChannels |-> InputChannelBatch], w.ph, input, input, ek, output, w.FilterCount,
                   OutputThisIteration, w.Bias,
                   PointwiseKernelFlags(wb, w.Bias, ic, InputChannelBatch),
                   PointwiseActivationWidth(wb, OutputThisIteration))

PointwiseCallsOneBatchTooMany(wb, w) ==
    [ n \in 1..(wb.InputChannels \div MaximumInputChannelBatch + 1) |->
        PointwiseCall(wb, w, n - 1) ]

PointwiseCalls(wb, w) ==
    LET batches == (wb.InputChannels + MaximumInputChannelBatch - 1)
                       \div MaximumInputChannelBatch
    IN  [ n \in 1..batches |-> PointwiseCall(wb, w, n - 1) ]

PointwiseIteration(wb, w) ==
    [ CompleteWork(wb, w, PointwiseWorkThisIteration(wb, w))
        EXCEPT !.calls = PointwiseCalls(wb, w) ]

(***************************************************************************)
(* MLAS_NCHWC_CONV_DEPTHWISE_ALGORITHM::Execute: the prologue and one      *)
(* iteration of the while loop.                                            *)
(***************************************************************************)
GroupBlockCount(wb) == (wb.GroupCount + BlockSize - 1) \div BlockSize

DepthwiseTotalWork(wb) == wb.BatchCount * GroupBlockCount(wb) * OutputHeight(wb)

DepthwisePrologue(wb, Index) ==
    LET part == PartitionWork(Index, wb.tids, DepthwiseTotalWork(wb))
        WorkIndex == part.WorkIndex
        BatchGroup == WorkIndex \div OutputHeight(wb)
        Group == BatchGroup % GroupBlockCount(wb)
    IN  [ pc            |-> "loop",
          WorkIndex     |-> WorkIndex,
          WorkRemaining |-> part.WorkRemaining,
          ph            |-> WorkIndex % OutputHeight(wb),
          FilterSet     |-> 0,
          Group         |-> Group,
          FilterCount   |-> 1,
          Input         |-> wb.Input + BatchGroup * BlockSize * wb.InputSize,
          Output        |-> wb.Output + WorkIndex * BlockSize * OutputWidth(wb),
          Filter        |-> wb.Filter + Group * BlockSize * KernelSize(wb),
          Bias          |-> IF wb.Bias # nullptr THEN wb.Bias + BlockSize * Group ELSE nullptr,
          calls         |-> <<>> ]

DepthwiseCall(wb, w) ==
    LET ek == ComputeEffectiveKernel(wb, w.ph, BlockSize * KernelWidth(wb), w.Filter)
    IN  KernelCall("ConvDepthwise", [ic |-> 0, InputChannels |-> 1], w.ph,
                   PointerAdd(w.Input, BlockSize * SubSize(ek.ih * InputWidth(wb), PaddingLeftX(wb))),
                   PointerAdd(w.Input, BlockSize * (ek.ih * InputWidth(wb))),
                   ek, w.Output, 1, OutputColumns(wb), w.Bias,
                   DepthwiseKernelFlags(wb, w.Bias), BlockedOutputWidth(wb))

DepthwiseIteration(wb, w) ==
    LET rowsDone == w.ph + 1 = OutputHeight(wb)
        groupsDone == rowsDone /\ w.Group + 1 = GroupBlockCount(wb)
    IN  [ w EXCEPT
            !.calls = <<DepthwiseCall(wb, w)>>,
            !.Output = w.Output + BlockedOutputWidth(wb),
            !.WorkRemaining = SubSize(w.WorkRemaining, 1),
            !.ph = IF rowsDone THEN 0 ELSE w.ph + 1,
            !.Input = IF rowsDone THEN w.Input + BlockSize * wb.InputSize ELSE w.Input,
            !.Filter = IF groupsDone
                       THEN wb.Filter
                       ELSE IF rowsDone THEN w.Filter + BlockSize * KernelSize(wb) ELSE w.Filter,
            !.Bias = IF groupsDone
                     THEN wb.Bias
                     ELSE IF rowsDone /\ w.Bias # nullptr THEN w.Bias + BlockSize ELSE w.Bias,
            !.Group = IF groupsDone THEN 0 ELSE IF rowsDone THEN w.Group + 1 ELSE w.Group ]

(***************************************************************************)
(* MLAS_NCHWC_POOL_ALGORITHM::Execute: the prologue, the inline trimming   *)
(* of the kernel height and one iteration of the while loop.               *)
(***************************************************************************)
PoolTotalWork(wb) ==
    ((wb.BatchCount * wb.InputChannels + BlockSize - 1) \div BlockSize) * OutputHeight(wb)

PoolPrologue(wb, Index) ==
    LET part == PartitionWork(Index, wb.tids, PoolTotalWork(wb))
        WorkIndex == part.WorkIndex
        BatchChannel == WorkIndex \div OutputHeight(wb)
    IN  [ pc            |-> "loop",
          WorkIndex     |-> WorkIndex,
          WorkRemaining |-> part.WorkRemaining,
          ph            |-> WorkIndex % OutputHeight(wb),
          FilterSet     |-> 0,
          Group         |-> 0,
          FilterCount   |-> 1,
          Input         |-> wb.Input + BatchChannel * BlockSize * wb.InputSize,
          Output        |-> wb.Output + WorkIndex * BlockSize * OutputWidth(wb),
          Filter        |-> nullptr,
          Bias          |-> nullptr,
          calls         |-> <<>> ]

RECURSIVE PoolKernelWalkKeepingFirstRow(_, _, _, _)
PoolKernelWalkKeepingFirstRow(wb, kh, ihStep, st) ==
    IF kh >= KernelHeight(wb)
    THEN st
    ELSE LET next == IF ihStep >= InputHeight(wb)
                     THEN [ st EXCEPT
                              !.EffectiveKernelHeight = SubSize(st.EffectiveKernelHeight, 1) ]
                     ELSE st
         IN  PoolKernelWalkKeepingFirstRow(wb, kh + 1, SizeT(ihStep + DilationHeight(wb)), next)

RECURSIVE PoolKernelWalk(_, _, _, _)
PoolKernelWalk(wb, kh, ihStep, st) ==
    IF kh >= KernelHeight(wb)
    THEN st
    ELSE LET next == IF ihStep >= InputHeight(wb)
                     THEN [ st EXCEPT
                              !.ih = IF ihStep = st.ih
                                     THEN SizeT(st.ih + DilationHeight(wb))
                                     ELSE st.ih,
                              !.EffectiveKernelHeight = SubSize(st.EffectiveKernelHeight, 1) ]
                     ELSE st
         IN  PoolKernelWalk(wb, kh + 1, SizeT(ihStep + DilationHeight(wb)), next)

PoolEffectiveKernel(wb, ph) ==
    LET ih == SubSize(ph * StrideHeight(wb), PaddingLeftY(wb))
        st == [ ih |-> ih, filter |-> nullptr, EffectiveKernelHeight |-> KernelHeight(wb) ]
    IN  IF SubSize(ph, OutputCountLeftPadY(wb)) >= OutputCountY(wb)
        THEN PoolKernelWalk(wb, 0, ih, st)
        ELSE st

PoolCall(wb, w) ==
    LET ek == PoolEffectiveKernel(wb, w.ph)
    IN  KernelCall("Pool", [ic |-> 0, InputChannels |-> 1], w.ph,
                   PointerAdd(w.Input, BlockSize * SubSize(ek.ih * InputWidth(wb), PaddingLeftX(wb))),
                   PointerAdd(w.Input, BlockSize * (ek.ih * InputWidth(wb))),
                   ek, w.Output, 1, OutputColumns(wb), nullptr, 0, 0)

PoolIterationInputEveryRow(wb, w) ==
    LET rowsDone == w.ph + 1 = OutputHeight(wb)
    IN  [ w EXCEPT
            !.calls = <<PoolCall(wb, w)>>,
            !.Output = w.Output + BlockSize * OutputWidth(wb),
            !.WorkRemaining = SubSize(w.WorkRemaining, 1),
            !.ph = IF rowsDone THEN 0 ELSE w.ph + 1,
            !.Input = w.Input + BlockSize * wb.InputSize ]

PoolIteration(wb, w) ==
    LET rowsDone == w.ph + 1 = OutputHeight(wb)
    IN  [ w EXCEPT
            !.calls = <<PoolCall(wb, w)>>,
            !.Output = w.Output + BlockSize * OutputWidth(wb),
            !.WorkRemaining = SubSize(w.WorkRemaining, 1),
            !.ph = IF rowsDone THEN 0 ELSE w.ph + 1,
            !.Input = IF rowsDone THEN w.Input + BlockSize * wb.InputSize ELSE w.Input ]

(***************************************************************************)
(* The microkernels and MlasActivation are external to snchwc.cpp; they    *)
(* are modelled by their contract.  A row block of the output holds one    *)
(* abstract value: a call adds the contribution of its channel tile to the *)
(* previous value (accumulate) or to zero, then adds the bias and applies  *)
(* ReLU as the flag word says.  The pooling kernels overwrite.             *)
(***************************************************************************)
MlasActivation(ActivationKind, value) ==
    CASE ActivationKind = MlasIdentityActivation -> value
      [] ActivationKind = MlasReluActivation -> IF value < 0 THEN 0 ELSE value
      [] OTHER -> IF value < -1 THEN -1 ELSE IF value > 1 THEN 1 ELSE value

MicrokernelStore(old, call, TileValue, BiasValue) ==
    IF call.kernel = "Pool"
    THEN TileValue
    ELSE LET accumulated == (IF HasFlag(call.KernelFlags, 1) THEN old ELSE 0) + TileValue
             biased == IF HasFlag(call.KernelFlags, 2) THEN accumulated + BiasValue ELSE accumulated
         IN  IF HasFlag(call.KernelFlags, 4) THEN MlasActivation(MlasReluActivation, biased) ELSE biased

KernelBlocks(wb, call) ==
    { call.Output + f * (BlockSize * wb.OutputSize) + r * BlockedOutputWidth(wb) :
        f \in 0..(call.FilterCount - 1),
        r \in 0..((call.OutputCount \div OutputWidth(wb)) - 1) }

(***************************************************************************)
(* MLAS_NCHWC_CONV_ALGORITHM::DoActivation: FilterCount rows of            *)
(* BlockedOutputWidth elements, BlockSize * OutputSize apart.              *)
(***************************************************************************)
DoActivationBlocks(wb, output, FilterCount, Width) ==
    { output + f * (BlockSize * wb.OutputSize) + r * BlockedOutputWidth(wb) :
        f \in 0..(FilterCount - 1),
        r \in 0..((Width \div BlockedOutputWidth(wb)) - 1) }

UntouchedBlock == [ value |-> 0, writers |-> {}, passes |-> 0, activations |-> 0 ]

ApplyCall(out, wb, a, Index, call) ==
    LET stored == KernelBlocks(wb, call)
        activated == IF call.DoActivation
                     THEN DoActivationBlocks(wb, call.Output, call.FilterCount, call.ActivationWidth)
                     ELSE {}
        old(o) == IF o \in DOMAIN out THEN out[o] ELSE UntouchedBlock
        afterKernel(o) ==
            IF o \in stored
            THEN [ old(o) EXCEPT
                     !.value = MicrokernelStore(@, call, a.TileValue, a.BiasValue),
                     !.writers = @ \cup {Index},
                     !.passes = @ + (IF call.ic = 0 THEN 1 ELSE 0) ]
            ELSE old(o)
        afterActivation(o) ==
            IF o \in activated
            THEN [ afterKernel(o) EXCEPT
                     !.value = MlasActivation(wb.ActivationKind, @),
                     !.writers = @ \cup {Index},
                     !.activations = @ + 1 ]
            ELSE afterKernel(o)
    IN  [ o \in (DOMAIN out) \cup stored \cup activated |-> afterActivation(o) ]

RECURSIVE ApplyCalls(_, _, _, _, _, _)
ApplyCalls(out, wb, a, Index, calls, n) ==
    IF n > Len(calls)
    THEN out
    ELSE CHOOSE result \in { ApplyCalls(next, wb, a, Index, calls, n + 1) :
                                next \in { ApplyCall(out, wb, a, Index, calls[n]) } } : TRUE

(***************************************************************************)
(* MlasNchwcConv and MlasNchwcPool: the front-end, step by step.           *)
(***************************************************************************)
SelectAlgorithmIgnoringPadding(wb) ==
    IF wb.InputChannels >= BlockSize
    THEN IF wb.KernelShape[0] = 1 /\ wb.KernelShape[1] = 1 THEN "Pointwise" ELSE "Nchwc"
    ELSE IF wb.InputChannels = 1 /\ wb.OutputChannels = 1
         THEN "Depthwise"
         ELSE "Nchw"

SelectAlgorithm(wb) ==
    IF wb.InputChannels >= BlockSize
    THEN IF /\ wb.KernelShape[0] = 1 /\ wb.KernelShape[1] = 1
            /\ wb.Padding[0] = 0 /\ wb.Padding[1] = 0
            /\ wb.Padding[2] = 0 /\ wb.Padding[3] = 0
         THEN "Pointwise"
         ELSE "Nchwc"
    ELSE IF wb.InputChannels = 1 /\ wb.OutputChannels = 1
         THEN "Depthwise"
         ELSE "Nchw"

PreparedShapeUnitKernelDefault(a) ==
    MlasPrepareNchwcWorkBlock(a.Dimensions, a.InputShape,
                              IF a.KernelShape = NullShape
                              THEN [dim \in 0..(a.Dimensions - 1) |-> 1]
                              ELSE a.KernelShape,
                              a.DilationShape, a.Padding, a.StrideShape, a.OutputShape)

PreparedShape(a) ==
    MlasPrepareNchwcWorkBlock(a.Dimensions, a.InputShape, a.KernelShape, a.DilationShape,
                              a.Padding, a.StrideShape, a.OutputShape)

ConvWorkBlock(a) ==
    [ tids           |-> 0,
      Input          |-> 0,
      Output         |-> 0,
      GroupCount     |-> a.GroupCount,
      Filter         |-> 0,
      Bias           |-> a.Bias,
      ActivationKind |-> a.ActivationKind,
      ZeroMode       |-> a.ZeroMode ] @@ PreparedShape(a)

PoolWorkBlock(a) ==
    [ tids        |-> 0,
      Input       |-> 0,
      Output      |-> 0,
      PoolingKind |-> a.PoolingKind ] @@ PreparedShape(a)

DivideInputChannelsOnly(wb) ==
    [ wb EXCEPT !.InputChannels = wb.InputChannels \div wb.GroupCount ]

DivideChannels(wb) ==
    [ wb EXCEPT !.InputChannels = wb.InputChannels \div wb.GroupCount,
                !.OutputChannels = wb.OutputChannels \div wb.GroupCount ]

(***************************************************************************)
(* CPUAllocator::Alloc of onnxruntime/core/framework/allocator.cc.  A      *)
(* request is a size and the build (instruction set, C library); the       *)
(* aligned allocator of the C library either fails or hands out a non-null *)
(* address that is a multiple of the alignment asked for.  posix_memalign  *)
(* reports failure by its return value and then leaves p as it was, that   *)
(* is, never assigned: any value.                                          *)
(***************************************************************************)
NoRequest == [ size |-> 0, isa |-> "none", library |-> "none" ]

NotAllocated == [ called |-> FALSE, raised |-> FALSE, p |-> nullptr, allocated |-> FALSE ]

InstructionSets == {"AVX512F", "AVX", "other"}

Libraries == {"MSVC", "SGX", "posix"}

AllocAlignment(isa) == IF isa = "AVX512F" THEN 64 ELSE 32

AlignedAddresses(alignment) == { alignment * k : k \in 1..MaxAllocBlocks }

IndeterminatePointers == {nullptr} \cup AlignedAddresses(32) \cup { a + 8 : a \in AlignedAddresses(32) }

LibraryOutcomes(library, alignment) ==
    { [ ret |-> 0, p |-> a ] : a \in AlignedAddresses(alignment) }
    \cup
    (IF library = "posix"
     THEN { [ ret |-> 12, p |-> a ] : a \in IndeterminatePointers }
     ELSE { [ ret |-> 0, p |-> nullptr ] })

AllocNeverFails(library, outcome) == FALSE

AllocFailed(library, outcome) ==
    IF library = "posix" THEN outcome.ret # 0 ELSE outcome.p = nullptr

Alloc(size, library, outcome) ==
    IF size <= 0
    THEN [ called |-> TRUE, raised |-> FALSE, p |-> nullptr, allocated |-> FALSE ]
    ELSE IF AllocFailed(library, outcome)
         THEN [ called |-> TRUE, raised |-> TRUE, p |-> nullptr, allocated |-> FALSE ]
         ELSE [ called |-> TRUE, raised |-> FALSE, p |-> outcome.p, allocated |-> TRUE ]

InitAlloc ==
    /\ allocIn \in [ size : 0..MaxAllocSize, isa : InstructionSets, library : Libraries ]
    /\ allocOut = NotAllocated
    /\ pwIn = [ tids |-> 0, TotalWork |-> 0 ]
    /\ pwOut = <<>>
    /\ pc = "off"
    /\ args = [ op |-> "none" ]
    /\ WorkBlock = [ tids |-> 0 ]
    /\ ThreadedRoutine = "none"
    /\ workers = <<>>
    /\ Output = <<>>

AllocCall ==
    /\ ~allocOut.called
    /\ allocIn.isa # "none"
    /\ \E outcome \in LibraryOutcomes(allocIn.library, AllocAlignment(allocIn.isa)) :
          allocOut' = Alloc(allocIn.size, allocIn.library, outcome)
    /\ UNCHANGED <<allocIn, pwIn, pwOut, pc, args, WorkBlock, ThreadedRoutine, workers, Output>>

NextAlloc == AllocCall

SpecAlloc == InitAlloc /\ [][NextAlloc]_vars

IdleWorker ==
    [ pc |-> "idle", WorkIndex |-> 0, WorkRemaining |-> 0, ph |-> 0, FilterSet |-> 0,
      Group |-> 0, FilterCount |-> 0, Input |-> 0, Output |-> 0, Filter |-> 0,
      Bias |-> nullptr, calls |-> <<>> ]

Threads == 0..(MaxThreads - 1)

ConvPrepare ==
    /\ pc = "entry"
    /\ args.op = "conv"
    /\ WorkBlock' = ConvWorkBlock(args)
    /\ pc' = "prepared"
    /\ UNCHANGED <<args, ThreadedRoutine, workers, Output, functionVars>>

ConvDivideChannels ==
    /\ pc = "prepared"
    /\ WorkBlock' = DivideChannels(WorkBlock)
    /\ pc' = "divided"
    /\ UNCHANGED <<args, ThreadedRoutine, workers, Output, functionVars>>

ConvSelect ==
    /\ pc = "divided"
    /\ ThreadedRoutine' = SelectAlgorithm(WorkBlock)
    /\ pc' = "selected"
    /\ UNCHANGED <<args, WorkBlock, workers, Output, functionVars>>

PoolPrepare ==
    /\ pc = "entry"
    /\ args.op = "pool"
    /\ WorkBlock' = PoolWorkBlock(args)
    /\ ThreadedRoutine' = "Pool"
    /\ pc' = "selected"
    /\ UNCHANGED <<args, workers, Output, functionVars>>

StoreThreadCount ==
    /\ pc = "selected"
    /\ WorkBlock' = [ WorkBlock EXCEPT !.tids = args.MaximumThreadCount ]
    /\ pc' = "scheduled"
    /\ UNCHANGED <<args, ThreadedRoutine, workers, Output, functionVars>>

(***************************************************************************)
(* MlasExecuteThreaded: routine(context, i) for every i in [0, tids),      *)
(* in any interleaving; it returns when all of them have returned.         *)
(***************************************************************************)
ExecuteThreaded ==
    /\ pc = "scheduled"
    /\ workers' = [ i \in Threads |->
                      IF i < WorkBlock.tids THEN [ IdleWorker EXCEPT !.pc = "ready" ]
                                            ELSE IdleWorker ]
    /\ pc' = "executing"
    /\ UNCHANGED <<args, WorkBlock, ThreadedRoutine, Output, functionVars>>

ReturnAfterFirstWorker ==
    /\ pc = "executing"
    /\ \E i \in Threads : workers[i].pc = "done"
    /\ pc' = "returned"
    /\ UNCHANGED <<args, WorkBlock, ThreadedRoutine, workers, Output, functionVars>>

Return ==
    /\ pc = "executing"
    /\ \A i \in Threads : workers[i].pc \in {"idle", "done"}
    /\ pc' = "returned"
    /\ UNCHANGED <<args, WorkBlock, ThreadedRoutine, workers, Output, functionVars>>

(***************************************************************************)
(* The workers.  Execute(Index) is the prologue followed by the while      *)
(* loop; the loop is left, and Execute returns, once WorkRemaining is 0.   *)
(***************************************************************************)
LoopOrDone(w) == [ w EXCEPT !.pc = IF w.WorkRemaining > 0 THEN "loop" ELSE "done" ]

Prologue(routine, wb, Index) ==
    CASE routine \in {"Nchwc", "Nchw", "Pointwise"} -> PrepareWork(wb, Index)
      [] routine = "Depthwise" -> DepthwisePrologue(wb, Index)
      [] routine = "Pool" -> PoolPrologue(wb, Index)

Iteration(routine, wb, w) ==
    CASE routine = "Nchwc" -> NchwcIteration(wb, w)
      [] routine = "Nchw" -> NchwIteration(wb, w)
      [] routine = "Pointwise" -> PointwiseIteration(wb, w)
      [] routine = "Depthwise" -> DepthwiseIteration(wb, w)
      [] routine = "Pool" -> PoolIteration(wb, w)

Start(i) ==
    /\ pc = "executing"
    /\ workers[i].pc = "ready"
    /\ workers' = [ workers EXCEPT ![i] = LoopOrDone(Prologue(ThreadedRoutine, WorkBlock, i)) ]

Step(i, routine) ==
    \E w \in { Iteration(routine, WorkBlock, workers[i]) } :
        /\ workers' = [ workers EXCEPT ![i] = LoopOrDone(w) ]
        /\ Output' = ApplyCalls(Output, WorkBlock, args, i, w.calls, 1)

Running(i, routine) ==
    pc = "executing" /\ ThreadedRoutine = routine /\ workers[i].pc = "loop"

StepNchwcAdvancingWorkBlock ==
    \E i \in Threads :
        /\ Running(i, "Nchwc")
        /\ Step(i, "Nchwc")
        /\ WorkBlock' = [ WorkBlock EXCEPT !.Filter = workers'[i].Filter ]
        /\ UNCHANGED <<pc, args, ThreadedRoutine, functionVars>>

StepNchwc ==
    \E i \in Threads :
        /\ Running(i, "Nchwc")
        /\ Step(i, "Nchwc")
        /\ UNCHANGED <<pc, args, WorkBlock, ThreadedRoutine, functionVars>>

StepNchw ==
    \E i \in Threads :
        /\ Running(i, "Nchw")
        /\ Step(i, "Nchw")
        /\ UNCHANGED <<pc, args, WorkBlock, ThreadedRoutine, functionVars>>

StepPointwise ==
    \E i \in Threads :
        /\ Running(i, "Pointwise")
        /\ Step(i, "Pointwise")
        /\ UNCHANGED <<pc, args, WorkBlock, ThreadedRoutine, functionVars>>

StepDepthwise ==
    \E i \in Threads :
        /\ Running(i, "Depthwise")
        /\ Step(i, "Depthwise")
        /\ UNCHANGED <<pc, args, WorkBlock, ThreadedRoutine, functionVars>>

StepPool ==
    \E i \in Threads :
        /\ Running(i, "Pool")
        /\ Step(i, "Pool")
        /\ UNCHANGED <<pc, args, WorkBlock, ThreadedRoutine, functionVars>>

StartWorker ==
    \E i \in Threads :
        /\ Start(i)
        /\ UNCHANGED <<pc, args, WorkBlock, ThreadedRoutine, Output, functionVars>>

Next ==
    \/ ConvPrepare
    \/ ConvDivideChannels
    \/ ConvSelect
    \/ PoolPrepare
    \/ StoreThreadCount
    \/ ExecuteThreaded
    \/ StartWorker
    \/ StepNchwc
    \/ StepNchw
    \/ StepPointwise
    \/ StepDepthwise
    \/ StepPool
    \/ Return

(***************************************************************************)
(* The arguments of one dispatch.  A spatial dimension is given by its     *)
(* input extent I, kernel K, dilation D, pads PL and PR and stride S; the  *)
(* caller supplies the output extent of a valid shape.                     *)
(***************************************************************************)
Dim(I, K, D, PL, PR, S) == [ I |-> I, K |-> K, D |-> D, PL |-> PL, PR |-> PR, S |-> S ]

Span(d) == d.D * (d.K - 1) + 1

ValidDim(d) == d.I + d.PL + d.PR >= Span(d)

OutputExtent(d) == (d.I + d.PL + d.PR - Span(d)) \div d.S + 1

ShapeArgs(N, Cin, Cout, H, W) ==
    [ Dimensions    |-> 2,
      InputShape    |-> Array(<<N, Cin, H.I, W.I>>),
      KernelShape   |-> Array(<<H.K, W.K>>),
      DilationShape |-> Array(<<H.D, W.D>>),
      Padding       |-> Array(<<H.PL, W.PL, H.PR, W.PR>>),
      StrideShape   |-> Array(<<H.S, W.S>>),
      OutputShape   |-> Array(<<N, Cout, OutputExtent(H), OutputExtent(W)>>) ]

ConvArgs(N, channels, H, W, ZeroMode, Bias, ActivationKind, T, InitialOutput, TileValue) ==
    [ op                 |-> "conv",
      GroupCount         |-> channels[3],
      Bias               |-> Bias,
      ActivationKind     |-> ActivationKind,
      ZeroMode           |-> ZeroMode,
      MaximumThreadCount |-> T,
      InitialOutput      |-> InitialOutput,
      TileValue          |-> TileValue,
      BiasValue          |-> 1 ] @@ ShapeArgs(N, channels[1], channels[2], H, W)

PoolArgs(N, C, H, W, PoolingKind, T, InitialOutput, TileValue) ==
    [ op                 |-> "pool",
      PoolingKind        |-> PoolingKind,
      MaximumThreadCount |-> T,
      InitialOutput      |-> InitialOutput,
      TileValue          |-> TileValue,
      BiasValue          |-> 0 ] @@ ShapeArgs(N, C, C, H, W)

OutputBlocks(a) ==
    LET blocks == a.OutputShape[0] * ((a.OutputShape[1] + BlockSize - 1) \div BlockSize)
                      * a.OutputShape[2]
    IN  { k * (BlockSize * a.OutputShape[3]) : k \in 0..(blocks - 1) }

InitialOutputTensor(a) ==
    [ o \in OutputBlocks(a) |-> [ UntouchedBlock EXCEPT !.value = a.InitialOutput ] ]

InitDispatch(family) ==
    /\ args \in family
    /\ pc = "entry"
    /\ WorkBlock = [ tids |-> 0 ]
    /\ ThreadedRoutine = "none"
    /\ workers = [ i \in Threads |-> IdleWorker ]
    /\ Output = InitialOutputTensor(args)
    /\ pwIn = [ tids |-> 0, TotalWork |-> 0 ]
    /\ pwOut = <<>>
    /\ allocIn = NoRequest
    /\ allocOut = NotAllocated

(***************************************************************************)
(* Dispatches with several workers: every executor, several batches,       *)
(* groups, filter sets and output heights.                                 *)
(***************************************************************************)
ActivationKinds == { MlasIdentityActivation, MlasReluActivation, MlasClipActivation }

HeightDims ==
    { Dim(3, 3, 1, 1, 1, 1), Dim(4, 4, 1, 3, 0, 2), Dim(2, 1, 1, 0, 0, 1), Dim(3, 1, 1, 0, 0, 2) }

WidthDims == { Dim(1, 1, 1, 0, 0, 1), Dim(3, 2, 1, 1, 0, 1) }

ConvChannels ==
    { <<8, 8, 1>>, <<16, 16, 2>>, <<8, 40, 1>>, <<8, 8, 8>>, <<16, 16, 16>>, <<3, 8, 1>> }

PoolChannels == { 8, 16 }

DispatchFamily ==
    { ConvArgs(N, ch, H, W, ZeroMode, 0, MlasClipActivation, T, 1, 3) :
        N \in 1..MaxBatch, ch \in ConvChannels, H \in HeightDims, W \in WidthDims,
        ZeroMode \in BOOLEAN, T \in 1..MaxThreads }
    \cup
    { PoolArgs(N, C, H, W, "Maximum", T, 1, 3) :
        N \in 1..MaxBatch, C \in PoolChannels, H \in HeightDims, W \in WidthDims,
        T \in 1..MaxThreads }

Init == InitDispatch(DispatchFamily)

Spec == Init /\ [][Next]_vars

(***************************************************************************)
(* PartitionWork applied as a pure function: a thread count and a total    *)
(* work are drawn, and each thread index calls PartitionWork once, in any  *)
(* order.                                                                  *)
(***************************************************************************)
NotCalled == [ called |-> FALSE, WorkIndex |-> 0, WorkRemaining |-> 0 ]

InitPartition ==
    /\ pwIn \in { [ tids |-> T, TotalWork |-> W ] :
                    T \in 1..MaxPartitionThreads, W \in 0..MaxPartitionWork }
    /\ pwOut = [ i \in 0..(pwIn.tids - 1) |-> NotCalled ]
    /\ pc = "off"
    /\ args = [ op |-> "none" ]
    /\ WorkBlock = [ tids |-> 0 ]
    /\ ThreadedRoutine = "none"
    /\ workers = [ i \in Threads |-> IdleWorker ]
    /\ Output = <<>>
    /\ allocIn = NoRequest
    /\ allocOut = NotAllocated

PartitionCall ==
    \E Index \in DOMAIN pwOut :
        /\ ~pwOut[Index].called
        /\ pwOut' = [ pwOut EXCEPT ![Index] =
                        [ called        |-> TRUE,
                          WorkIndex     |-> PartitionWork(Index, pwIn.tids, pwIn.TotalWork).WorkIndex,
                          WorkRemaining |-> PartitionWork(Index, pwIn.tids, pwIn.TotalWork).WorkRemaining ] ]
        /\ UNCHANGED <<pwIn, dispatchVars, allocatorVars>>

NextPartition == PartitionCall

SpecPartition == InitPartition /\ [][NextPartition]_vars

PartitionRange(i) == pwOut[i].WorkIndex..(pwOut[i].WorkIndex + pwOut[i].WorkRemaining - 1)

PartitionAllCalled == \A i \in DOMAIN pwOut : pwOut[i].called

(* C1: the ranges PartitionWork returns for the thread indices 0..T-1 are  *)
(* contiguous in ascending order of the index starting at 0, pairwise      *)
(* disjoint, and cover exactly [0, W); threads below W mod T get           *)
(* floor(W/T)+1 items and the others floor(W/T), so a thread at or beyond  *)
(* W gets nothing when W < T.                                              *)
C1_PartitionContract ==
    LET T == pwIn.tids
        W == pwIn.TotalWork
        called(i) == i \in DOMAIN pwOut /\ pwOut[i].called
    IN  /\ \A i \in DOMAIN pwOut :
              called(i) =>
                 /\ pwOut[i].WorkRemaining = (IF i < W % T THEN W \div T + 1 ELSE W \div T)
                 /\ (i = 0 => pwOut[i].WorkIndex = 0)
                 /\ (i = T - 1 => pwOut[i].WorkIndex + pwOut[i].WorkRemaining = W)
                 /\ (called(i + 1) =>
                        pwOut[i + 1].WorkIndex = pwOut[i].WorkIndex + pwOut[i].WorkRemaining)
                 /\ (W < T /\ i >= W => pwOut[i].WorkRemaining = 0)
        /\ \A i, j \in DOMAIN pwOut :
              called(i) /\ called(j) /\ i # j => PartitionRange(i) \cap PartitionRange(j) = {}
        /\ PartitionAllCalled =>
              UNION { PartitionRange(i) : i \in DOMAIN pwOut } = 0..(W - 1)

C1_Witness ==
    /\ PartitionAllCalled
    /\ pwIn.tids = 3
    /\ pwIn.TotalWork = 2
    /\ pwOut[1].WorkRemaining = 1
    /\ pwOut[2].WorkRemaining = 0

(***************************************************************************)
(* Disjoint output regions, over the dispatches of Spec.                   *)
(***************************************************************************)
Writers == UNION { Output[o].writers : o \in DOMAIN Output }

(* C2: for each of the five executors, every shape and every thread count, *)
(* each output row unit is processed by exactly one worker, no output      *)
(* range is written by two workers, nothing is written outside the output  *)
(* tensor, and once all workers have run the written ranges cover the      *)
(* whole output tensor.                                                    *)
C2_DisjointOutputRegions ==
    /\ DOMAIN Output = OutputBlocks(args)
    /\ \A o \in DOMAIN Output :
          /\ Cardinality(Output[o].writers) <= 1
          /\ Output[o].passes <= 1
          /\ (pc = "returned" => Cardinality(Output[o].writers) = 1 /\ Output[o].passes = 1)

C2_Witness ==
    /\ pc = "returned"
    /\ ThreadedRoutine = "Depthwise"
    /\ WorkBlock.tids = 3
    /\ WorkBlock.BatchCount = 2
    /\ Writers = {0, 1, 2}

(***************************************************************************)
(* Dispatches over the shapes of one spatial dimension: every valid        *)
(* (input, kernel, dilation, pads, stride) within the bounds, as the       *)
(* height of each executor's tensor and as the width of one.               *)
(***************************************************************************)
ShapeDims ==
    { d \in { Dim(I, K, D, PL, PR, S) :
                I \in 1..MaxInput, K \in 1..MaxKernel, D \in 1..MaxDilation,
                PL \in 0..MaxPadding, PR \in 0..MaxPaddingRight, S \in 1..MaxStride } :
        ValidDim(d) }

UnitDim == Dim(1, 1, 1, 0, 0, 1)

ShapeChannels == { <<8, 8, 1>>, <<3, 8, 1>>, <<8, 8, 8>> }

ShapeFamily ==
    { ConvArgs(1, ch, H, UnitDim, TRUE, 0, MlasIdentityActivation, 1, 0, 3) :
        ch \in ShapeChannels, H \in ShapeDims }
    \cup
    { ConvArgs(1, <<8, 8, 1>>, UnitDim, W, TRUE, 0, MlasIdentityActivation, 1, 0, 3) :
        W \in ShapeDims }
    \cup
    { PoolArgs(1, 8, H, UnitDim, "Maximum", 1, 0, 3) : H \in ShapeDims }

InitShape == InitDispatch(ShapeFamily)

SpecShape == InitShape /\ [][Next]_vars

Prepared == pc \notin {"entry", "off"}

SpatialDims == 0..(args.Dimensions - 1)

DimOf(dim) ==
    Dim(args.InputShape[dim + 2], args.KernelShape[dim], args.DilationShape[dim],
        args.Padding[dim], args.Padding[dim + args.Dimensions], args.StrideShape[dim])

TapsInside(d, x) == \A k \in 0..(d.K - 1) : x * d.S - d.PL + k * d.D \in 0..(d.I - 1)

InMid(dim, x) ==
    /\ WorkBlock.OutputCountLeftPad[dim] <= x
    /\ x < WorkBlock.OutputCountLeftPad[dim] + WorkBlock.OutputCount[dim]

(* C3: for every spatial dimension of every valid shape the stored triple  *)
(* satisfies OutputCountLeftPad + OutputCount + OutputCountRightPad = OH,  *)
(* each term being a count between 0 and OH: none is a wrapped value.      *)
C3_PartitionSum ==
    Prepared =>
        \A dim \in SpatialDims :
            LET OH == OutputExtent(DimOf(dim))
            IN  /\ args.OutputShape[dim + 2] = OH
                /\ OH >= 1
                /\ WorkBlock.OutputCountLeftPad[dim] \in 0..OH
                /\ WorkBlock.OutputCount[dim] \in 0..OH
                /\ WorkBlock.OutputCountRightPad[dim] \in 0..OH
                /\ WorkBlock.OutputCountLeftPad[dim] + WorkBlock.OutputCount[dim]
                     + WorkBlock.OutputCountRightPad[dim] = OH

C3_Witness ==
    /\ Prepared
    /\ DimOf(HeightShapeIndex) = Dim(3, 3, 1, 1, 1, 2)
    /\ WorkBlock.OutputCountLeftPad[HeightShapeIndex] = 1
    /\ WorkBlock.OutputCount[HeightShapeIndex] = 0
    /\ WorkBlock.OutputCountRightPad[HeightShapeIndex] = 1

(* C4: for every spatial dimension of every valid shape and every output   *)
(* position x in [0, OH), all kernel taps x*S - PL + k*D, k in [0, K), lie *)
(* inside [0, I) if and only if Lpad <= x < Lpad + Mid for the stored      *)
(* triple.                                                                 *)
C4_PartitionCorrectness ==
    Prepared =>
        \A dim \in SpatialDims :
            \A x \in 0..(args.OutputShape[dim + 2] - 1) :
                TapsInside(DimOf(dim), x) <=> InMid(dim, x)

(***************************************************************************)
(* The rows a convolution kernel is handed: ih, ih + DH, ..., KHeff rows.  *)
(***************************************************************************)
UsesEffectiveKernel(call) == call.kernel \in {"ConvNchwc", "ConvNchw", "ConvDepthwise"}

RowsValid(call) ==
    \A j \in 0..(call.EffectiveKernelHeight - 1) :
        call.ih + j * DilationHeight(WorkBlock) \in 0..(InputHeight(WorkBlock) - 1)

(* C5: in the executors that use ComputeEffectiveKernel, for every valid   *)
(* shape and every output row, the (ih, KHeff) handed to the microkernel   *)
(* name valid input rows only: ih + j*DH is in [0, IH) for j in [0, KHeff).*)
C5_EffectiveKernelValid ==
    \A i \in Threads :
        \A n \in DOMAIN workers[i].calls :
            UsesEffectiveKernel(workers[i].calls[n]) => RowsValid(workers[i].calls[n])

(***************************************************************************)
(* Where the stored triple of the height is right, so are the rows.        *)
(***************************************************************************)
HeightPartitionCorrect ==
    \A x \in 0..(args.OutputShape[HeightShapeIndex + 2] - 1) :
        TapsInside(DimOf(HeightShapeIndex), x) <=> InMid(HeightShapeIndex, x)

EffectiveKernelValidWherePartitionCorrect ==
    (Prepared /\ HeightPartitionCorrect) => C5_EffectiveKernelValid

(***************************************************************************)
(* Dispatches over the inputs of the algorithm selection: channel counts   *)
(* and groups, kernels 1 and 3, pads 0 and 1 on each of the four sides,    *)
(* strides and dilations 1 and 2.                                          *)
(***************************************************************************)
SelectChannels ==
    { <<8, 8, 1>>, <<16, 8, 1>>, <<16, 16, 2>>, <<3, 8, 1>>, <<1, 8, 1>>, <<7, 8, 1>>,
      <<4, 16, 2>>, <<8, 8, 8>>, <<16, 16, 16>> }

SelectDims(D) ==
    { d \in { Dim(3, K, D, PL, PR, S) : K \in {1, 3}, PL \in {0, 1}, PR \in {0, 1}, S \in {1, 2} } :
        ValidDim(d) }

SelectFamily ==
    { ConvArgs(1, ch, shape[1], shape[2], TRUE, 0, MlasIdentityActivation, 1, 0, 3) :
        ch \in SelectChannels,
        shape \in UNION { SelectDims(D) \X SelectDims(D) : D \in {1, 2} } }
    \cup
    { PoolArgs(1, 8, H, UnitDim, "Maximum", 1, 0, 3) : H \in SelectDims(1) }

InitSelect == InitDispatch(SelectFamily)

SpecSelect == InitSelect /\ [][Next]_vars

Selected == args.op = "conv" /\ pc \in {"selected", "scheduled", "executing", "returned"}

ChannelsPerGroup == args.InputShape[1] \div args.GroupCount

FiltersPerGroup == args.OutputShape[1] \div args.GroupCount

KernelIsOneByOne == args.KernelShape[0] = 1 /\ args.KernelShape[1] = 1

Unpadded == \A side \in 0..3 : args.Padding[side] = 0

(* C6: the executor MlasNchwcConv selects is a function of the per-group   *)
(* channel counts, the kernel shape and the four pads, by the ordered      *)
(* rule pointwise, NCHWc, depthwise, NCHW; stride and dilation play no     *)
(* part.                                                                   *)
C6_AlgorithmSelection ==
    Selected =>
        ThreadedRoutine =
            IF ChannelsPerGroup >= BlockSize /\ KernelIsOneByOne /\ Unpadded
            THEN "Pointwise"
            ELSE IF ChannelsPerGroup >= BlockSize
                 THEN "Nchwc"
                 ELSE IF ChannelsPerGroup = 1 /\ FiltersPerGroup = 1
                      THEN "Depthwise"
                      ELSE "Nchw"

C6_Witness ==
    /\ pc = "returned"
    /\ args.op = "conv"
    /\ ChannelsPerGroup = 8
    /\ KernelIsOneByOne
    /\ Unpadded
    /\ args.StrideShape[0] = 2
    /\ args.StrideShape[1] = 2
    /\ args.DilationShape[0] = 2
    /\ ThreadedRoutine = "Pointwise"

(***************************************************************************)
(* Dispatches over the inputs of the flag word and of the values stored:   *)
(* ZeroMode, bias present or null, every activation kind, prior output     *)
(* contents and tile contributions, with one or more channel tiles.        *)
(***************************************************************************)
FlagChannels == { <<16, 8, 1>>, <<3, 8, 1>>, <<8, 8, 8>> }

FlagDims == { Dim(3, 3, 1, 1, 1, 1), Dim(2, 1, 1, 0, 0, 1) }

PointwiseBatchedChannels == <<136, 8, 1>>

FlagShapes ==
    (FlagChannels \X FlagDims) \cup { <<PointwiseBatchedChannels, Dim(2, 1, 1, 0, 0, 1)>> }

FlagFamily ==
    { ConvArgs(1, shape[1], shape[2], UnitDim, ZeroMode, Bias, kind, T, InitialOutput, TileValue) :
        shape \in FlagShapes, ZeroMode \in BOOLEAN, Bias \in {nullptr, 0},
        kind \in ActivationKinds, T \in 1..MaxThreads, InitialOutput \in {0, 2},
        TileValue \in {-2, 3} }
    \cup
    { PoolArgs(1, 8, H, UnitDim, "Maximum", T, 2, 3) : H \in FlagDims, T \in 1..MaxThreads }

InitFlags == InitDispatch(FlagFamily)

SpecFlags == InitFlags /\ [][Next]_vars

ConvCall(call) == call.kernel # "Pool"

FinalWriterBits(call) ==
    \/ HasFlag(call.KernelFlags, 2)
    \/ HasFlag(call.KernelFlags, 4)
    \/ HasFlag(call.KernelFlags, 8)

Overwrites(call) == ~HasFlag(call.KernelFlags, 1)

SameUnit(calls, n) == { m \in DOMAIN calls : calls[m].row = calls[n].row }

LastOfUnit(calls, n) == \A m \in SameUnit(calls, n) : m <= n

FirstOfUnit(calls, n) == \A m \in SameUnit(calls, n) : m >= n

(* C7: in every convolution executor, among the calls made for one output  *)
(* row unit only the last call, the one for the last channel tile, may     *)
(* carry the add-bias, ReLU or deferred-activation bit; on every earlier   *)
(* call the three bits are clear.                                          *)
C7_FinalWriter ==
    \A i \in Threads :
        \A n \in DOMAIN workers[i].calls :
            ConvCall(workers[i].calls[n]) =>
                /\ (~LastOfUnit(workers[i].calls, n) => ~FinalWriterBits(workers[i].calls[n]))
                /\ (LastOfUnit(workers[i].calls, n) <=>
                      workers[i].calls[n].ic + workers[i].calls[n].InputChannels
                        = WorkBlock.InputChannels)

C7_Witness ==
    \E i \in Threads :
        LET calls == workers[i].calls
        IN  /\ Len(calls) = 2
            /\ calls[1].kernel = "ConvPointwise"
            /\ calls[1].row = calls[2].row
            /\ calls[1].KernelFlags = 0
            /\ calls[2].KernelFlags = 11

(* C8: on every call of every convolution executor the accumulate bit is   *)
(* clear if and only if ZeroMode is true and the call is the first channel *)
(* tile of its output row unit; so under ZeroMode each unit gets exactly   *)
(* one overwriting call, ahead of its accumulating calls, and without      *)
(* ZeroMode no call overwrites.                                            *)
C8_AccumulateBit ==
    \A i \in Threads :
        \A n \in DOMAIN workers[i].calls :
            ConvCall(workers[i].calls[n]) =>
                /\ (Overwrites(workers[i].calls[n]) <=>
                      (args.ZeroMode /\ FirstOfUnit(workers[i].calls, n)))
                /\ (args.ZeroMode =>
                      Cardinality({ m \in SameUnit(workers[i].calls, n) :
                                      Overwrites(workers[i].calls[m]) }) = 1)
                /\ (~args.ZeroMode => ~Overwrites(workers[i].calls[n]))

C8_Witness ==
    \E i \in Threads :
        LET calls == workers[i].calls
        IN  /\ args.op = "conv"
            /\ args.ZeroMode
            /\ Len(calls) = 3
            /\ calls[1].kernel = "ConvNchw"
            /\ Overwrites(calls[1])
            /\ ~Overwrites(calls[2])
            /\ ~Overwrites(calls[3])

(***************************************************************************)
(* The value a convolution leaves in a row block that started at zero:     *)
(* the contributions of its channel tiles and the bias, activated.         *)
(***************************************************************************)
ChannelTiles ==
    CASE ThreadedRoutine = "Nchwc" -> WorkBlock.InputChannels \div BlockSize
      [] ThreadedRoutine = "Nchw" -> WorkBlock.InputChannels
      [] ThreadedRoutine = "Pointwise" ->
            (WorkBlock.InputChannels + MaximumInputChannelBatch - 1) \div MaximumInputChannelBatch
      [] ThreadedRoutine = "Depthwise" -> 1

ConvolutionValue ==
    ChannelTiles * args.TileValue + (IF args.Bias # nullptr THEN args.BiasValue ELSE 0)

ConvReturned == pc = "returned" /\ args.op = "conv"

(* C9: the final output of a convolution with ZeroMode = true started from *)
(* any output contents equals that of the same convolution with ZeroMode = *)
(* false started from an all-zero output: both are the activated sum of    *)
(* the tile contributions and the bias, whatever the prior contents.       *)
C9_ZeroModeOverwrite ==
    (ConvReturned /\ (args.ZeroMode \/ args.InitialOutput = 0)) =>
        \A o \in DOMAIN Output :
            Output[o].value = MlasActivation(args.ActivationKind, ConvolutionValue)

C9_Witness ==
    /\ ConvReturned
    /\ args.ZeroMode
    /\ args.InitialOutput = 2
    /\ args.ActivationKind = MlasClipActivation
    /\ args.Bias # nullptr
    /\ ThreadedRoutine = "Nchwc"
    /\ ChannelTiles = 2
    /\ args.TileValue = -2
    /\ \A o \in DOMAIN Output : Output[o].value = -1

(* C10: the final output of a convolution with ZeroMode = false started    *)
(* from contents Y equals, element by element, the final output with       *)
(* ZeroMode = true started from zero, plus Y, for any bias and activation. *)
C10_ZeroModeAdditive ==
    (ConvReturned /\ ~args.ZeroMode) =>
        \A o \in DOMAIN Output :
            Output[o].value
                = MlasActivation(args.ActivationKind, ConvolutionValue) + args.InitialOutput

(* C10 amended: with ZeroMode = false the prior contents Y are added       *)
(* before the activation, so the final output is the activation of         *)
(* (convolution + bias + Y); it equals the ZeroMode = true result plus Y   *)
(* when the activation is the identity, with or without bias.              *)
C10_ZeroModeAdditiveAmended ==
    (ConvReturned /\ ~args.ZeroMode) =>
        \A o \in DOMAIN Output :
            /\ Output[o].value
                 = MlasActivation(args.ActivationKind, ConvolutionValue + args.InitialOutput)
            /\ (args.ActivationKind = MlasIdentityActivation =>
                  Output[o].value
                    = MlasActivation(args.ActivationKind, ConvolutionValue) + args.InitialOutput)

C10_Witness ==
    /\ ConvReturned
    /\ ~args.ZeroMode
    /\ args.InitialOutput = 2
    /\ args.ActivationKind = MlasIdentityActivation
    /\ args.Bias # nullptr
    /\ ThreadedRoutine = "Pointwise"
    /\ ChannelTiles = 2
    /\ args.TileValue = 3
    /\ \A o \in DOMAIN Output : Output[o].value = 9

(***************************************************************************)
(* Dispatches for the properties that compare a worker with a reference    *)
(* computation: every executor, groups, filter sets and group blocks, with *)
(* 1..MaxThreads workers and 1..MaxBatch batches.                          *)
(***************************************************************************)
ThreadChannels == { <<8, 8, 1>>, <<16, 16, 2>>, <<8, 40, 1>>, <<16, 16, 16>>, <<3, 8, 1>> }

ThreadDims == { Dim(3, 3, 1, 1, 1, 1), Dim(2, 1, 1, 0, 0, 1), Dim(3, 1, 1, 0, 0, 2) }

ThreadFamily ==
    { ConvArgs(N, ch, H, UnitDim, TRUE, 0, MlasClipActivation, T, 1, 3) :
        N \in 1..MaxBatch, ch \in ThreadChannels, H \in ThreadDims, T \in 1..MaxThreads }
    \cup
    { PoolArgs(N, 8, H, UnitDim, "Maximum", T, 1, 3) :
        N \in 1..MaxBatch, H \in ThreadDims, T \in 1..MaxThreads }

InitThreads == InitDispatch(ThreadFamily)

SpecThreads == InitThreads /\ [][Next]_vars

(***************************************************************************)
(* The same work block run by a single thread: the calls index 0 issues    *)
(* when tids is 1, in order, over all its iterations.                      *)
(***************************************************************************)
RECURSIVE SingleThreadCalls(_, _, _)
SingleThreadCalls(routine, wb, w) ==
    IF w.WorkRemaining = 0
    THEN <<>>
    ELSE Iteration(routine, wb, w).calls
            \o SingleThreadCalls(routine, wb, Iteration(routine, wb, w))

SingleThreadWorkBlock == [ WorkBlock EXCEPT !.tids = 1 ]

ReferenceCalls ==
    SingleThreadCalls(ThreadedRoutine, SingleThreadWorkBlock,
                      Prologue(ThreadedRoutine, SingleThreadWorkBlock, 0))

Executing == pc \in {"executing", "returned"}

(***************************************************************************)
(* An output row unit is named by the output offset of its first strip.    *)
(* A call covers OutputCount / OutputWidth rows from its Output argument.  *)
(***************************************************************************)
RowsOf(call) == call.OutputCount \div OutputWidth(WorkBlock)

UnitsOf(call) ==
    { call.Output + j * BlockedOutputWidth(WorkBlock) : j \in 0..(RowsOf(call) - 1) }

CallsFor(calls, unit) == SelectSeq(calls, LAMBDA call : unit \in UnitsOf(call))

CallTuple(call) ==
    <<call.ic, call.KernelFlags, call.ih, call.EffectiveKernelHeight, call.Filter,
      call.Input, call.Output>>

RowTuple(call, unit) ==
    LET j == (unit - call.Output) \div BlockedOutputWidth(WorkBlock)
    IN  <<call.ic, call.KernelFlags, call.ih + j * StrideHeight(WorkBlock),
          call.EffectiveKernelHeight, call.Filter,
          call.Input + j * BlockSize * StrideHeight(WorkBlock) * InputWidth(WorkBlock),
          unit>>

CallTuplesFor(calls, unit) ==
    LET selected == CallsFor(calls, unit)
    IN  [ n \in 1..Len(selected) |-> CallTuple(selected[n]) ]

RowTuplesFor(calls, unit) ==
    LET selected == CallsFor(calls, unit)
    IN  [ n \in 1..Len(selected) |-> RowTuple(selected[n], unit) ]

RECURSIVE ValueAfter(_, _, _)
ValueAfter(calls, n, value) ==
    IF n > Len(calls)
    THEN value
    ELSE LET stored == MicrokernelStore(value, calls[n], args.TileValue, args.BiasValue)
         IN  ValueAfter(calls, n + 1,
                        IF calls[n].DoActivation
                        THEN MlasActivation(WorkBlock.ActivationKind, stored)
                        ELSE stored)

CallsWriting(calls, o) == SelectSeq(calls, LAMBDA call : o \in KernelBlocks(WorkBlock, call))

(* C11: for a fixed work block and any two thread counts, the ordered list *)
(* of (channel tile, flag word, ih, KHeff, filter, input and output        *)
(* offset) of the calls issued for an output row unit by the worker that   *)
(* owns it is the same: it is the list a single thread issues.             *)
C11_SameCallsPerRow ==
    Executing =>
        LET reference == ReferenceCalls
        IN  \A i \in Threads :
                \A unit \in UNION { UnitsOf(workers[i].calls[n]) : n \in DOMAIN workers[i].calls } :
                    CallTuplesFor(workers[i].calls, unit) = CallTuplesFor(reference, unit)

(* C11 amended: the pointwise executor with unit strides issues one call   *)
(* for the run of rows its worker owns in an image, so the calls depend on *)
(* the thread count; what is independent of it is the work done per row:   *)
(* the ordered list of (channel tile, flag word, filter offset, KHeff) and *)
(* of the ih, input and output offsets taken at the row within the call.   *)
(* The final output is that of the single thread.                          *)
C11_SameWorkPerRow ==
    Executing =>
        LET reference == ReferenceCalls
        IN  /\ \A i \in Threads :
                  \A unit \in UNION { UnitsOf(workers[i].calls[n]) : n \in DOMAIN workers[i].calls } :
                      RowTuplesFor(workers[i].calls, unit) = RowTuplesFor(reference, unit)
            /\ pc = "returned" =>
                  \A o \in DOMAIN Output :
                      Output[o].value
                        = ValueAfter(CallsWriting(reference, o), 1, args.InitialOutput)

C11_Witness ==
    /\ pc = "returned"
    /\ ThreadedRoutine = "Pointwise"
    /\ WorkBlock.tids = 3
    /\ StrideHeight(WorkBlock) = 1
    /\ OutputHeight(WorkBlock) = 2
    /\ WorkBlock.BatchCount = 2
    /\ Writers = {0, 1, 2}
    /\ Len(ReferenceCalls) = 2

(***************************************************************************)
(* One group of one batch taken alone: the convolution with the per-group  *)
(* channel counts, GroupCount 1 and one batch, run by a single thread.     *)
(***************************************************************************)
GroupedRoutine == args.op = "conv" /\ ThreadedRoutine \in {"Nchwc", "Nchw", "Pointwise"}

OneGroupArgs ==
    [ args EXCEPT !.GroupCount = 1,
                  !.InputShape = [ @ EXCEPT ![0] = 1, ![1] = ChannelsPerGroup ],
                  !.OutputShape = [ @ EXCEPT ![0] = 1, ![1] = FiltersPerGroup ] ]

OneGroupWorkBlock == [ DivideChannels(ConvWorkBlock(OneGroupArgs)) EXCEPT !.tids = 1 ]

OneGroupCalls ==
    SingleThreadCalls(ThreadedRoutine, OneGroupWorkBlock,
                      Prologue(ThreadedRoutine, OneGroupWorkBlock, 0))

BatchGroupOf(call) == call.Output \div (FiltersPerGroup * WorkBlock.OutputSize)

GroupOf(call) == BatchGroupOf(call) % args.GroupCount

FilterPerGroup == FiltersPerGroup * ChannelsPerGroup * KernelSize(WorkBlock)

(***************************************************************************)
(* A call with its buffer offsets taken from the start of its batch and    *)
(* group: the input and output channel ranges and the filter and bias      *)
(* blocks of the group.                                                    *)
(***************************************************************************)
WithinGroup(call) ==
    [ call EXCEPT
        !.Output = @ - BatchGroupOf(call) * FiltersPerGroup * WorkBlock.OutputSize,
        !.Input = @ - BatchGroupOf(call) * ChannelsPerGroup * WorkBlock.InputSize,
        !.InputBase = @ - BatchGroupOf(call) * ChannelsPerGroup * WorkBlock.InputSize,
        !.Filter = @ - GroupOf(call) * FilterPerGroup,
        !.Bias = IF @ = nullptr THEN @ ELSE @ - GroupOf(call) * FiltersPerGroup ]

GroupTuplesFor(calls, unit) ==
    LET selected == CallsFor(calls, unit)
    IN  [ n \in 1..Len(selected) |-> <<RowTuple(selected[n], unit), selected[n].Bias>> ]

InGroupRanges(call) ==
    /\ call.InputBase \in 0..(ChannelsPerGroup * WorkBlock.InputSize - 1)
    /\ call.Filter \in 0..(FilterPerGroup - 1)
    /\ (call.Bias = nullptr \/ call.Bias \in 0..(FiltersPerGroup - 1))
    /\ call.Output >= 0
    /\ BlockSize * (call.Output \div (BlockSize * WorkBlock.OutputSize))
         + BlockSize * call.FilterCount <= FiltersPerGroup

(* C12: with GroupCount = G, for every batch n and group g the grouped     *)
(* executors use the input channels [g*c_in, (g+1)*c_in) of batch n, the   *)
(* filter and bias block of group g and the output channels                *)
(* [g*c_out, (g+1)*c_out) of batch n: taken from the start of the group,   *)
(* the offsets are those of the convolution with channels (c_in, c_out)    *)
(* alone.                                                                  *)
C12_GroupedFactoring ==
    (Executing /\ GroupedRoutine) =>
        LET independent == OneGroupCalls
        IN  \A i \in Threads :
                LET calls == [ n \in DOMAIN workers[i].calls |-> WithinGroup(workers[i].calls[n]) ]
                IN  \A n \in DOMAIN calls :
                        /\ InGroupRanges(calls[n])
                        /\ \A unit \in UnitsOf(calls[n]) :
                              GroupTuplesFor(calls, unit) = GroupTuplesFor(independent, unit)

C12_Witness ==
    /\ Executing
    /\ GroupedRoutine
    /\ args.GroupCount = 2
    /\ WorkBlock.tids = 3
    /\ \E i \in Threads :
          /\ Len(workers[i].calls) > 0
          /\ BatchGroupOf(workers[i].calls[1]) = 3
          /\ GroupOf(workers[i].calls[1]) = 1
          /\ workers[i].calls[1].Filter >= FilterPerGroup
          /\ workers[i].calls[1].Bias = FiltersPerGroup

(***************************************************************************)
(* Fair scheduling: the front-end proceeds, and the thread pool runs every *)
(* worker that can take a step.                                            *)
(***************************************************************************)
Routines == {"Nchwc", "Nchw", "Pointwise", "Depthwise", "Pool"}

WorkerStep(i) ==
    \/ /\ Start(i)
       /\ UNCHANGED <<pc, args, WorkBlock, ThreadedRoutine, Output, functionVars>>
    \/ \E routine \in Routines :
          /\ Running(i, routine)
          /\ Step(i, routine)
          /\ UNCHANGED <<pc, args, WorkBlock, ThreadedRoutine, functionVars>>

FrontEndStep ==
    \/ ConvPrepare
    \/ ConvDivideChannels
    \/ ConvSelect
    \/ PoolPrepare
    \/ StoreThreadCount
    \/ ExecuteThreaded
    \/ Return

Fairness == WF_vars(FrontEndStep) /\ \A i \in Threads : WF_vars(WorkerStep(i))

FairFamily == { a \in ThreadFamily : a.InputShape[0] = 1 }

InitFair == InitDispatch(FairFamily)

FairSpecThreads == InitFair /\ [][Next]_vars /\ Fairness

(***************************************************************************)
(* The row units of a dispatch and the share the partitioner assigns.      *)
(***************************************************************************)
TotalRowUnits ==
    IF args.op = "pool"
    THEN ((args.InputShape[0] * args.InputShape[1] + BlockSize - 1) \div BlockSize)
            * args.OutputShape[2]
    ELSE IF ThreadedRoutine = "Depthwise"
         THEN args.InputShape[0] * ((args.GroupCount + BlockSize - 1) \div BlockSize)
                 * args.OutputShape[2]
         ELSE args.InputShape[0] * args.GroupCount
                 * ((FiltersPerGroup + BlockSize * FilterSetSize - 1)
                       \div (BlockSize * FilterSetSize))
                 * args.OutputShape[2]

AssignedCount(i) ==
    IF i < TotalRowUnits % WorkBlock.tids
    THEN TotalRowUnits \div WorkBlock.tids + 1
    ELSE TotalRowUnits \div WorkBlock.tids

UnitsIssued(i) == UNION { UnitsOf(workers[i].calls[n]) : n \in DOMAIN workers[i].calls }

WorkerBounded ==
    Executing =>
        \A i \in Threads :
            /\ workers[i].pc \in {"loop", "done"} =>
                  workers[i].WorkRemaining \in 0..AssignedCount(i)
            /\ workers[i].pc = "loop" => workers[i].WorkRemaining > 0
            /\ workers[i].pc = "done" => workers[i].WorkRemaining = 0
            /\ (workers[i].pc = "done" /\ AssignedCount(i) = 0) =>
                  workers[i].calls = <<>> /\ i \notin Writers
            /\ workers[i].pc \in {"idle", "ready"} => i \notin Writers

WorkerAdvances ==
    \A i \in Threads :
        /\ (workers[i].pc = "ready" /\ workers'[i].pc # "ready") =>
              /\ workers'[i].WorkRemaining = AssignedCount(i)
              /\ workers'[i].calls = <<>>
              /\ Output' = Output
        /\ (workers[i].pc = "loop" /\ workers'[i] # workers[i]) =>
              /\ workers'[i].WorkRemaining < workers[i].WorkRemaining
              /\ Cardinality(UnitsIssued(i)') = workers[i].WorkRemaining - workers'[i].WorkRemaining

(* C13: every worker's loop starts with the count the partitioner assigns, *)
(* strictly decreases WorkRemaining by the number of row units it          *)
(* processes on each iteration without underflow, and ends at 0; a worker  *)
(* assigned nothing issues no call and writes nothing; under fair          *)
(* scheduling of the workers the dispatch eventually completes.            *)
C13_RunToCompletion ==
    /\ []WorkerBounded
    /\ [][WorkerAdvances]_vars
    /\ <>(pc = "returned")

C13_Witness ==
    /\ pc = "returned"
    /\ WorkBlock.tids = 3
    /\ TotalRowUnits = 2
    /\ workers[2].pc = "done"
    /\ workers[2].calls = <<>>
    /\ Writers = {0, 1}

(***************************************************************************)
(* The activation post-pass.                                               *)
(***************************************************************************)
DeferredKind ==
    /\ args.op = "conv"
    /\ args.ActivationKind \notin {MlasIdentityActivation, MlasReluActivation}

PostPasses == IF DeferredKind THEN 1 ELSE 0

FinalWriter(calls, n) ==
    /\ LastOfUnit(calls, n)
    /\ calls[n].ic + calls[n].InputChannels = WorkBlock.InputChannels

PostPassOf(call) ==
    DoActivationBlocks(WorkBlock, call.Output, call.FilterCount, call.ActivationWidth)

(* C14: with an activation other than identity and ReLU the post-pass      *)
(* follows exactly the final-writer call of a row unit, never a call for   *)
(* an earlier channel tile, and covers exactly the row blocks that call    *)
(* wrote (for the pointwise executor BlockSize * OutputThisIteration       *)
(* elements per filter block); no row block is ever activated twice and at *)
(* the return every row block has been activated once.  With identity or   *)
(* ReLU the post-pass is never invoked.                                    *)
C14_DeferredActivationOnce ==
    Executing =>
        /\ \A i \in Threads :
              \A n \in DOMAIN workers[i].calls :
                  LET calls == workers[i].calls
                  IN  /\ calls[n].DoActivation <=>
                            (ConvCall(calls[n]) /\ DeferredKind /\ FinalWriter(calls, n))
                      /\ calls[n].DoActivation =>
                            PostPassOf(calls[n]) = KernelBlocks(WorkBlock, calls[n])
                      /\ (calls[n].DoActivation /\ calls[n].kernel = "ConvPointwise") =>
                            calls[n].ActivationWidth = BlockSize * calls[n].OutputCount
        /\ \A o \in DOMAIN Output :
              /\ Output[o].activations <= PostPasses
              /\ Output[o].activations = 1 => Output[o].passes = 1
        /\ pc = "returned" =>
              \A o \in DOMAIN Output : Output[o].activations = PostPasses

C14_Witness ==
    /\ pc = "returned"
    /\ DeferredKind
    /\ \E i \in Threads :
          LET calls == workers[i].calls
          IN  /\ Len(calls) = 2
              /\ calls[2].kernel = "ConvPointwise"
              /\ ~calls[1].DoActivation
              /\ calls[2].DoActivation
              /\ calls[2].OutputCount = 2 * OutputWidth(WorkBlock)
              /\ \A o \in KernelBlocks(WorkBlock, calls[2]) : Output[o].activations = 1

(***************************************************************************)
(* The with-left-pad count of one spatial dimension.                       *)
(***************************************************************************)
Max(a, b) == IF a >= b THEN a ELSE b

WithLeftPadComputed(dim) ==
    LET d == DimOf(dim)
    IN  OutputCountWithLeftPadOf(d.I, d.PL, SpanValueOf(d.D, d.K), d.S, args.OutputShape[dim + 2])

ClampedWithLeftPad(d) == Min(OutputExtent(d), Max(0, (d.I + d.PL - Span(d)) \div d.S + 1))

WithLeftPadOrAll(d) ==
    IF d.I + d.PL >= Span(d) THEN (d.I + d.PL - Span(d)) \div d.S + 1 ELSE OutputExtent(d)

StoredAround(dim, Withpad) ==
    /\ WorkBlock.OutputCountLeftPad[dim] + WorkBlock.OutputCount[dim] = Withpad
    /\ WorkBlock.OutputCountRightPad[dim] = OutputExtent(DimOf(dim)) - Withpad

(* C15 as stated: for every spatial dimension the with-left-pad count is   *)
(* max(0, floor((I + PL - Span)/S) + 1) clamped to OH, and the stored      *)
(* triple has Lpad + Mid equal to it and Rpad = OH minus it, also when     *)
(* I + PL < Span.                                                          *)
C15_WithLeftPadClamped ==
    Prepared =>
        \A dim \in SpatialDims :
            /\ WithLeftPadComputed(dim) = ClampedWithLeftPad(DimOf(dim))
            /\ StoredAround(dim, ClampedWithLeftPad(DimOf(dim)))

(* C15 amended: the with-left-pad count is floor((I + PL - Span)/S) + 1    *)
(* when I + PL >= Span, which never exceeds OH, and OH itself when         *)
(* I + PL < Span; the stored triple has Lpad + Mid equal to it and         *)
(* Rpad = OH minus it.                                                     *)
C15_WithLeftPadOrAll ==
    Prepared =>
        \A dim \in SpatialDims :
            /\ WithLeftPadComputed(dim) = WithLeftPadOrAll(DimOf(dim))
            /\ WithLeftPadOrAll(DimOf(dim)) \in 1..OutputExtent(DimOf(dim))
            /\ StoredAround(dim, WithLeftPadOrAll(DimOf(dim)))

C15_Witness ==
    /\ Prepared
    /\ DimOf(HeightShapeIndex) = Dim(1, 3, 1, 1, 1, 1)
    /\ WithLeftPadComputed(HeightShapeIndex) = 1
    /\ WorkBlock.OutputCountLeftPad[HeightShapeIndex] = 1
    /\ WorkBlock.OutputCount[HeightShapeIndex] = 0
    /\ WorkBlock.OutputCountRightPad[HeightShapeIndex] = 0

(***************************************************************************)
(* The order of the entry's steps and the invocations of the executor.     *)
(***************************************************************************)
FrontEndOrder ==
    { <<"entry", "prepared">>, <<"prepared", "divided">>, <<"divided", "selected">>,
      <<"entry", "selected">>, <<"selected", "scheduled">>, <<"scheduled", "executing">>,
      <<"executing", "returned">> }

WorkerOrder ==
    { <<"idle", "ready">>, <<"ready", "loop">>, <<"ready", "done">>, <<"loop", "done">> }

ChannelsAre(InputChannels, OutputChannels) ==
    /\ WorkBlock.InputChannels = InputChannels
    /\ WorkBlock.OutputChannels = OutputChannels

ChannelsDivided ==
    IF args.op = "conv"
    THEN ChannelsAre(args.InputShape[1] \div args.GroupCount,
                     args.OutputShape[1] \div args.GroupCount)
    ELSE ChannelsAre(args.InputShape[1], args.OutputShape[1])

FrontEndState ==
    /\ pc = "entry" => ThreadedRoutine = "none" /\ WorkBlock.tids = 0
    /\ pc = "prepared" =>
          /\ args.op = "conv"
          /\ ChannelsAre(args.InputShape[1], args.OutputShape[1])
          /\ ThreadedRoutine = "none" /\ WorkBlock.tids = 0
    /\ pc = "divided" =>
          args.op = "conv" /\ ChannelsDivided /\ ThreadedRoutine = "none" /\ WorkBlock.tids = 0
    /\ pc = "selected" => ChannelsDivided /\ ThreadedRoutine \in Routines /\ WorkBlock.tids = 0
    /\ pc \in {"scheduled", "executing", "returned"} =>
          /\ ChannelsDivided
          /\ ThreadedRoutine \in Routines
          /\ (ThreadedRoutine = "Pool") = (args.op = "pool")
          /\ WorkBlock.tids = args.MaximumThreadCount
    /\ pc \in {"entry", "prepared", "divided", "selected", "scheduled"} =>
          \A i \in Threads : workers[i].pc = "idle"
    /\ pc = "executing" => \A i \in Threads : (workers[i].pc # "idle") = (i < WorkBlock.tids)
    /\ pc = "returned" =>
          \A i \in Threads : workers[i].pc = (IF i < WorkBlock.tids THEN "done" ELSE "idle")

FrontEndAdvance ==
    /\ pc' # pc => <<pc, pc'>> \in FrontEndOrder
    /\ \A i \in Threads :
          /\ workers'[i].pc # workers[i].pc => <<workers[i].pc, workers'[i].pc>> \in WorkerOrder
          /\ (workers[i].pc \in {"ready", "loop"} /\ workers'[i] # workers[i]) =>
                /\ pc = "executing" /\ pc' = "executing"
                /\ WorkBlock' = WorkBlock
                /\ ThreadedRoutine' = ThreadedRoutine
          /\ workers[i].pc = "ready" /\ workers'[i].pc # "ready" =>
                workers'[i] = LoopOrDone(Prologue(ThreadedRoutine, WorkBlock, i))

(* C16: the entry prepares the shapes, then (convolution only) divides the *)
(* channel counts by GroupCount, then selects the executor, then stores    *)
(* the thread count T, then submits; the executor is started exactly once  *)
(* for each index below T and for no other index, every invocation runs    *)
(* with that T and the divided channel counts, and the entry returns only  *)
(* when every invocation is done.                                          *)
C16_FrontEndOrdering == []FrontEndState /\ [][FrontEndAdvance]_vars

C16_Witness ==
    /\ pc = "returned"
    /\ args.op = "conv"
    /\ args.GroupCount = 2
    /\ WorkBlock.InputChannels = 8
    /\ WorkBlock.tids = 3
    /\ \A i \in Threads : workers[i].pc = "done"

(***************************************************************************)
(* The work block during the dispatch.                                     *)
(***************************************************************************)
ResetBy(w) == w.ph = 0 /\ w.FilterSet = 0 /\ w.Group = 0

WorkBlockReadOnly ==
    pc = "executing" =>
        /\ WorkBlock' = WorkBlock
        /\ \A i \in Threads :
              workers'[i] # workers[i] =>
                  /\ \A j \in Threads \ {i} : workers'[j] = workers[j]
                  /\ (workers[i].pc = "loop" /\ ThreadedRoutine # "Pool" /\ ResetBy(workers'[i])) =>
                        /\ workers'[i].Filter = WorkBlock.Filter
                        /\ workers'[i].Bias = WorkBlock.Bias

(* C17: while the dispatch executes, no step of any worker changes any     *)
(* field of the work block; a step changes the buffer pointers of its own  *)
(* worker only, and when a worker passes its last group the Filter and     *)
(* Bias it continues with are the bases stored in the work block, wherever *)
(* the other workers stand.                                                *)
C17_WorkBlockReadOnly == [][WorkBlockReadOnly]_vars

C17_Witness ==
    /\ pc = "executing"
    /\ args.op = "conv"
    /\ args.GroupCount = 2
    /\ \E i, j \in Threads :
          /\ i # j
          /\ workers[i].pc = "loop"
          /\ workers[i].WorkRemaining < AssignedCount(i)
          /\ ResetBy(workers[i])
          /\ workers[i].Filter = WorkBlock.Filter
          /\ workers[j].pc = "loop"
          /\ workers[j].Filter # WorkBlock.Filter

CompletedUnits(i) == AssignedCount(i) - workers[i].WorkRemaining

LinearIndex(i) == workers[i].WorkIndex + CompletedUnits(i)

FromScratch(idx) ==
    Prologue(ThreadedRoutine, [ WorkBlock EXCEPT !.tids = TotalRowUnits ], idx)

SameLoopState(w, v) ==
    /\ w.ph = v.ph
    /\ w.FilterSet = v.FilterSet
    /\ w.Group = v.Group
    /\ w.FilterCount = v.FilterCount
    /\ w.Input = v.Input
    /\ w.Filter = v.Filter
    /\ w.Output = v.Output
    /\ w.Bias = v.Bias

(* C19: in the NCHWc, NCHW and pointwise executors, a worker that has      *)
(* completed k row units from its WorkIndex, by whatever iterations, holds *)
(* the ph, FilterSet, Group, FilterCount, Input, Filter, Output and Bias   *)
(* that PrepareWork computes for the linear index WorkIndex + k, as long   *)
(* as that index is below TotalWork.                                       *)
C19_GroupedIncremental ==
    (Executing /\ GroupedRoutine) =>
        \A i \in Threads :
            (workers[i].pc \in {"loop", "done"} /\ LinearIndex(i) < TotalRowUnits) =>
                /\ FromScratch(LinearIndex(i)).WorkIndex = LinearIndex(i)
                /\ SameLoopState(workers[i], FromScratch(LinearIndex(i)))

C19_Witness ==
    /\ pc = "executing"
    /\ GroupedRoutine
    /\ args.GroupCount = 2
    /\ \E i \in Threads :
          /\ workers[i].pc = "loop"
          /\ CompletedUnits(i) >= 2
          /\ FromScratch(workers[i].WorkIndex).Group = 0
          /\ workers[i].Group = 1
          /\ workers[i].Filter # WorkBlock.Filter

RowRoutine == ThreadedRoutine \in {"Depthwise", "Pool"}

PrologueFormulas(w, idx) ==
    LET block == idx \div OutputHeight(WorkBlock)
        Group == block % GroupBlockCount(WorkBlock)
    IN  /\ w.ph = idx % OutputHeight(WorkBlock)
        /\ w.Output = WorkBlock.Output + idx * BlockSize * OutputWidth(WorkBlock)
        /\ w.Input = WorkBlock.Input + block * BlockSize * WorkBlock.InputSize
        /\ ThreadedRoutine = "Depthwise" =>
              /\ w.Group = Group
              /\ w.Filter = WorkBlock.Filter + Group * BlockSize * KernelSize(WorkBlock)
              /\ w.Bias = (IF WorkBlock.Bias # nullptr
                           THEN WorkBlock.Bias + BlockSize * Group
                           ELSE nullptr)

(* C20: in the depthwise and pool executors, a worker that has completed k *)
(* rows from its WorkIndex holds the state the prologue computes for the   *)
(* linear index idx = WorkIndex + k: ph = idx mod OH, block = idx div OH,  *)
(* Output at idx * B * OW, Input at block * B * InputSize and, for         *)
(* depthwise, the group block = block mod ceil(G/B) with its Filter and    *)
(* Bias offsets.                                                           *)
C20_RowIncremental ==
    (Executing /\ RowRoutine) =>
        \A i \in Threads :
            (workers[i].pc \in {"loop", "done"} /\ LinearIndex(i) < TotalRowUnits) =>
                /\ FromScratch(LinearIndex(i)).WorkIndex = LinearIndex(i)
                /\ SameLoopState(workers[i], FromScratch(LinearIndex(i)))
                /\ PrologueFormulas(workers[i], LinearIndex(i))

C20_Witness ==
    /\ pc = "executing"
    /\ ThreadedRoutine = "Depthwise"
    /\ \E i \in Threads :
          /\ workers[i].pc = "loop"
          /\ CompletedUnits(i) >= 2
          /\ FromScratch(workers[i].WorkIndex).Group = 0
          /\ workers[i].Group = 1
          /\ workers[i].ph = 0
          /\ workers[i].Filter = BlockSize * KernelSize(WorkBlock)

(***************************************************************************)
(* The Filter and Bias pointers when the output-row axis wraps.            *)
(***************************************************************************)
RowAxisWraps(i) ==
    /\ pc = "executing"
    /\ GroupedRoutine
    /\ workers[i].pc = "loop"
    /\ workers'[i] # workers[i]
    /\ workers'[i].ph = 0

FilterSetsDone(i) == workers[i].FilterSet + 1 = FilterSetCount(WorkBlock)

GroupsDone(i) == FilterSetsDone(i) /\ workers[i].Group + 1 = WorkBlock.GroupCount

ResetToOriginals(i) ==
    /\ workers'[i].Filter = WorkBlock.Filter
    /\ workers'[i].Bias = WorkBlock.Bias

AdvancedByFilterCount(i) ==
    /\ workers'[i].Filter = workers[i].Filter
          + BlockSize * workers[i].FilterCount * WorkBlock.InputChannels * KernelSize(WorkBlock)
    /\ workers'[i].Bias = (IF workers[i].Bias # nullptr
                           THEN workers[i].Bias + BlockSize * workers[i].FilterCount
                           ELSE nullptr)

(* C21 as stated: in the grouped executors, whenever the output-row axis   *)
(* wraps and all filter sets of the current group are done, the worker's   *)
(* Filter and Bias are reset to the work block's originals, for every      *)
(* group and any GroupCount.                                               *)
C21_ResetAfterEveryGroup ==
    [][\A i \in Threads : (RowAxisWraps(i) /\ FilterSetsDone(i)) => ResetToOriginals(i)]_vars

(* C21 amended: when the output-row axis wraps, Filter and Bias are reset  *)
(* to the work block's originals exactly when the filter sets of the last  *)
(* group are done; after the filter sets of an earlier group, and after an *)
(* earlier filter set, they advance by the filters just processed, into    *)
(* the next group's filters.                                               *)
C21_ResetAfterLastGroup ==
    [][\A i \in Threads :
          RowAxisWraps(i) =>
              IF GroupsDone(i)
              THEN ResetToOriginals(i) /\ workers'[i].Group = 0 /\ workers'[i].FilterSet = 0
              ELSE /\ AdvancedByFilterCount(i)
                   /\ workers'[i].Filter # WorkBlock.Filter
                   /\ (FilterSetsDone(i) => workers'[i].Group = workers[i].Group + 1)]_vars

C21_Witness ==
    /\ pc = "executing"
    /\ GroupedRoutine
    /\ WorkBlock.GroupCount = 2
    /\ \E i \in Threads :
          /\ workers[i].pc = "loop"
          /\ CompletedUnits(i) >= 1
          /\ FromScratch(workers[i].WorkIndex).Group = 0
          /\ workers[i].Group = 1
          /\ workers[i].FilterSet = 0
          /\ workers[i].ph = 0
          /\ workers[i].Filter = WorkBlock.Filter
                + WorkBlock.OutputChannels * WorkBlock.InputChannels * KernelSize(WorkBlock)

(***************************************************************************)
(* The kernel rows of an output row ph, as integers: row kh reads input    *)
(* row ph*SH - PL + kh*DH.                                                 *)
(***************************************************************************)
KernelRow(ph, kh) ==
    ph * StrideHeight(WorkBlock) - PaddingLeftY(WorkBlock) + kh * DilationHeight(WorkBlock)

RowInRange(ph, kh) == KernelRow(ph, kh) \in 0..(InputHeight(WorkBlock) - 1)

KernelRows == 0..(KernelHeight(WorkBlock) - 1)

LeadingOutOfRange(ph) ==
    Cardinality({ kh \in KernelRows : \A j \in 0..kh : ~RowInRange(ph, j) })

RowsInRange(ph) == Cardinality({ kh \in KernelRows : RowInRange(ph, kh) })

OutputRows == 0..(OutputHeight(WorkBlock) - 1)

DepthwiseFilterStride == BlockSize * KernelWidth(WorkBlock)

EffectiveKernelOf(ph) == ComputeEffectiveKernel(WorkBlock, ph, DepthwiseFilterStride, 0)

ConvPrepared == Prepared /\ args.op = "conv"

(* C22: for every output row ph, ComputeEffectiveKernel returns, when ph   *)
(* is in the interior span of the stored height triple, ih = ph*SH - PL,   *)
(* KHeff = KH and the filter pointer as given; otherwise KHeff = the       *)
(* number of kernel rows inside [0, IH), ih = ph*SH - PL + t*DH and the    *)
(* filter pointer advanced by t*FilterStride, t being the number of        *)
(* leading kernel rows out of range; trailing rows out of range only       *)
(* lower KHeff.  The calls of the executors carry these values.            *)
C22_EffectiveKernelResult ==
    ConvPrepared =>
        /\ \A ph \in OutputRows :
              LET ek == EffectiveKernelOf(ph)
                  t == LeadingOutOfRange(ph)
              IN  IF InMid(HeightShapeIndex, ph)
                  THEN /\ ek.ih = SizeT(KernelRow(ph, 0))
                       /\ ek.EffectiveKernelHeight = KernelHeight(WorkBlock)
                       /\ ek.filter = 0
                  ELSE /\ ek.EffectiveKernelHeight = RowsInRange(ph)
                       /\ ek.ih = SizeT(KernelRow(ph, t))
                       /\ ek.filter = t * DepthwiseFilterStride
        /\ \A i \in Threads :
              \A n \in DOMAIN workers[i].calls :
                  UsesEffectiveKernel(workers[i].calls[n]) =>
                      /\ workers[i].calls[n].ih = EffectiveKernelOf(workers[i].calls[n].row).ih
                      /\ workers[i].calls[n].EffectiveKernelHeight
                            = EffectiveKernelOf(workers[i].calls[n].row).EffectiveKernelHeight

C22_Witness ==
    /\ ConvPrepared
    /\ DimOf(HeightShapeIndex) = Dim(1, 3, 1, 1, 1, 1)
    /\ LeadingOutOfRange(0) = 1
    /\ RowsInRange(0) = 1
    /\ \E i \in Threads :
          \E n \in DOMAIN workers[i].calls :
              /\ workers[i].calls[n].kernel = "ConvNchwc"
              /\ workers[i].calls[n].row = 0
              /\ workers[i].calls[n].ih = 0
              /\ workers[i].calls[n].EffectiveKernelHeight = 1
              /\ workers[i].calls[n].Filter = BlockSize * BlockSize * KernelWidth(WorkBlock)

(* C23: for every work block and every output row ph, the ih and          *)
(* EffectiveKernelHeight the pool executor computes inline equal those     *)
(* ComputeEffectiveKernel returns for the same shape parameters; the calls *)
(* of the pool executor carry them.                                        *)
C23_PoolTrimmingMatchesConv ==
    Prepared =>
        /\ \A ph \in OutputRows :
              /\ PoolEffectiveKernel(WorkBlock, ph).ih = EffectiveKernelOf(ph).ih
              /\ PoolEffectiveKernel(WorkBlock, ph).EffectiveKernelHeight
                    = EffectiveKernelOf(ph).EffectiveKernelHeight
        /\ \A i \in Threads :
              \A n \in DOMAIN workers[i].calls :
                  workers[i].calls[n].kernel = "Pool" =>
                      /\ workers[i].calls[n].ih = EffectiveKernelOf(workers[i].calls[n].row).ih
                      /\ workers[i].calls[n].EffectiveKernelHeight
                            = EffectiveKernelOf(workers[i].calls[n].row).EffectiveKernelHeight

C23_Witness ==
    /\ Prepared
    /\ args.op = "pool"
    /\ DimOf(HeightShapeIndex) = Dim(2, 3, 2, 2, 1, 1)
    /\ \E i \in Threads :
          \E n \in DOMAIN workers[i].calls :
              /\ workers[i].calls[n].kernel = "Pool"
              /\ workers[i].calls[n].row = 0
              /\ workers[i].calls[n].ih = EffectiveKernelOf(0).ih
              /\ workers[i].calls[n].ih = 0
              /\ workers[i].calls[n].EffectiveKernelHeight = 1

(***************************************************************************)
(* The closed form of the trimming: the rows trimmed at the top are those  *)
(* below 0, ceil((PL - ph*SH)/DH) of them if positive, the rows trimmed at *)
(* the bottom are those at or beyond IH.                                   *)
(***************************************************************************)
CeilDiv(a, b) == -((-a) \div b)

TrimTop(ph) ==
    Max(0, CeilDiv(PaddingLeftY(WorkBlock) - ph * StrideHeight(WorkBlock),
                   DilationHeight(WorkBlock)))

TrimBottom(ph) ==
    Cardinality({ kh \in KernelRows : KernelRow(ph, kh) >= InputHeight(WorkBlock) })

ClosedForm(ph) ==
    [ ih                    |-> SizeT(KernelRow(ph, TrimTop(ph))),
      filter                |-> TrimTop(ph) * DepthwiseFilterStride,
      EffectiveKernelHeight |-> KernelHeight(WorkBlock) - TrimTop(ph) - TrimBottom(ph) ]

PointwiseIterates(i) ==
    /\ pc = "executing"
    /\ ThreadedRoutine = "Pointwise"
    /\ workers[i].pc = "loop"
    /\ workers'[i] # workers[i]

UnitStrides == StrideHeight(WorkBlock) = 1 /\ StrideWidth(WorkBlock) = 1

RowsCovered(i) == workers'[i].calls[1].OutputCount \div OutputWidth(WorkBlock)

NextRowsOfPartition(i, rows) ==
    \A j \in 0..(rows - 1) :
        /\ FromScratch(LinearIndex(i) + j).ph = workers[i].ph + j
        /\ FromScratch(LinearIndex(i) + j).Output = workers[i].Output
        /\ FromScratch(LinearIndex(i) + j).Filter = workers[i].Filter

PointwiseChannelCounts == { BlockSize * k : k \in {1, 2, 15, 16, 17, 31, 32, 33} }

RECURSIVE BlockCountSum(_, _)
BlockCountSum(calls, n) ==
    IF n > Len(calls) THEN 0
    ELSE calls[n].InputChannels \div BlockSize + BlockCountSum(calls, n + 1)

BatchOf(calls, n) == calls[n].ic .. (calls[n].ic + calls[n].InputChannels - 1)

ChannelBatches(calls, cin) ==
    /\ Len(calls) >= 1
    /\ \A n \in DOMAIN calls :
          /\ calls[n].ic = (n - 1) * 128
          /\ calls[n].ic < cin
          /\ calls[n].InputChannels = Min(cin - calls[n].ic, 128)
          /\ calls[n].InputChannels % BlockSize = 0
          /\ calls[n].Input = calls[1].Input + (n - 1) * 128 * WorkBlock.InputSize
          /\ calls[n].Filter = calls[1].Filter + (n - 1) * 128 * BlockSize
          /\ calls[n].Output = calls[1].Output
          /\ (calls[n].ic + calls[n].InputChannels = cin) <=> (n = Len(calls))
          /\ (n < Len(calls) => ~FinalWriterBits(calls[n]))
          /\ (n = Len(calls) =>
                (HasFlag(calls[n].KernelFlags, 2) <=> calls[n].Bias # nullptr))
    /\ \A n, m \in DOMAIN calls : n < m => BatchOf(calls, n) \cap BatchOf(calls, m) = {}
    /\ UNION { BatchOf(calls, n) : n \in DOMAIN calls } = 0..(cin - 1)
    /\ BlockCountSum(calls, 1) = cin \div BlockSize

(* C26: for every input channel count that is a positive multiple of the   *)
(* block size, the calls of a pointwise iteration take the channels in     *)
(* batches starting at 0, 128, 256, ..., each of min(C_in - ic, 128)       *)
(* channels: disjoint, ascending, covering [0, C_in), their block counts   *)
(* summing to C_in / BlockSize; the input and filter pointers of batch j   *)
(* are j*128*InputSize and j*128*BlockSize past those of the first batch,  *)
(* which are the row's input and the worker's filter; and only the last    *)
(* batch carries final-writer bits.                                        *)
C26_PointwiseChannelBatching ==
    (pc = "executing" /\ ThreadedRoutine = "Pointwise") =>
        \A i \in Threads :
            /\ workers[i].calls # <<>> =>
                  ChannelBatches(workers[i].calls, WorkBlock.InputChannels)
            /\ workers[i].pc = "loop" =>
                  \A cin \in PointwiseChannelCounts \cup { WorkBlock.InputChannels } :
                      LET wb == [ WorkBlock EXCEPT !.InputChannels = cin ]
                          calls == PointwiseCalls(wb, workers[i])
                      IN  /\ ChannelBatches(calls, cin)
                          /\ Len(calls) = (cin + 127) \div 128
                          /\ calls[1].Input = workers[i].Input
                                + BlockSize * (workers[i].ph * StrideHeight(wb) * InputWidth(wb))
                          /\ calls[1].Filter = workers[i].Filter

C26_Witness ==
    /\ pc = "executing"
    /\ ThreadedRoutine = "Pointwise"
    /\ WorkBlock.InputChannels = 136
    /\ \E i \in Threads :
          /\ Len(workers[i].calls) = 2
          /\ workers[i].calls[1].ic = 0
          /\ workers[i].calls[1].InputChannels = 128
          /\ workers[i].calls[2].ic = 128
          /\ workers[i].calls[2].InputChannels = 8
          /\ workers[i].calls[2].Input
                = workers[i].calls[1].Input + 128 * WorkBlock.InputSize
          /\ workers[i].calls[2].Filter = workers[i].calls[1].Filter + 128 * BlockSize

(***************************************************************************)
(* The flag word of a call, bit by bit.  A call is the final writer of its *)
(* rows when its channel tile ends at the work block's InputChannels.      *)
(***************************************************************************)
FinalWriterCall(call) == call.ic + call.InputChannels = WorkBlock.InputChannels

BiasSupplied == args.Bias # nullptr

FlagWord(accumulate, bias, relu, deferred) ==
    (IF accumulate THEN 1 ELSE 0) + (IF bias THEN 2 ELSE 0)
        + (IF relu THEN 4 ELSE 0) + (IF deferred THEN 8 ELSE 0)

DeferredKindOfArgs == args.ActivationKind \notin {MlasIdentityActivation, MlasReluActivation}

(* C27: on the final-writer call of every convolution executor bit 1 of    *)
(* the flag word is set iff a bias pointer was supplied, bit 2 iff the     *)
(* activation kind is ReLU, and bit 3 iff the kind is neither identity nor *)
(* ReLU; on no call are bits 2 and 3 both set or any bit above bit 3 set.  *)
(* Every call of the depthwise executor is a final-writer call and carries *)
(* the same word: bit 0 = not ZeroMode, with the bias and activation bits. *)
C27_FlagEncoding ==
    (pc = "executing" /\ args.op = "conv") =>
        \A i \in Threads :
            \A n \in DOMAIN workers[i].calls :
                LET call == workers[i].calls[n]
                IN  /\ call.KernelFlags \in 0..15
                    /\ ~(HasFlag(call.KernelFlags, 4) /\ HasFlag(call.KernelFlags, 8))
                    /\ FinalWriterCall(call) =>
                          /\ HasFlag(call.KernelFlags, 2) <=> BiasSupplied
                          /\ HasFlag(call.KernelFlags, 4)
                                <=> args.ActivationKind = MlasReluActivation
                          /\ HasFlag(call.KernelFlags, 8) <=> DeferredKindOfArgs
                    /\ call.kernel = "ConvDepthwise" =>
                          /\ FinalWriterCall(call)
                          /\ call.KernelFlags
                                = FlagWord(~args.ZeroMode, BiasSupplied,
                                           args.ActivationKind = MlasReluActivation,
                                           DeferredKindOfArgs)

C27_Witness ==
    /\ pc = "executing"
    /\ ThreadedRoutine = "Depthwise"
    /\ ~args.ZeroMode
    /\ BiasSupplied
    /\ args.ActivationKind = MlasReluActivation
    /\ \E i \in Threads :
          /\ workers[i].calls # <<>>
          /\ workers[i].calls[1].KernelFlags = 7
          /\ workers[i].calls[1].row >= 1

(***************************************************************************)
(* Accumulation order.  The calls of one iteration that cover one output   *)
(* row unit, in the order they are issued, and the channel tile each one   *)
(* contributes.                                                            *)
(***************************************************************************)
TileStep ==
    CASE ThreadedRoutine = "Nchwc" -> BlockSize
      [] ThreadedRoutine = "Nchw" -> 1
      [] ThreadedRoutine = "Pointwise" -> MaximumInputChannelBatch

AscendingTiles(selected) ==
    /\ Len(selected) >= 1
    /\ \A n \in DOMAIN selected :
          /\ selected[n].ic = (n - 1) * TileStep
          /\ selected[n].InputChannels = Min(TileStep, WorkBlock.InputChannels - selected[n].ic)
    /\ selected[Len(selected)].ic + selected[Len(selected)].InputChannels
          = WorkBlock.InputChannels

RowsInnerBlocksOuter(calls) ==
    \A n \in 1..(Len(calls) - 1) :
        /\ calls[n + 1].ic >= calls[n].ic
        /\ calls[n + 1].ic = calls[n].ic => calls[n + 1].row = calls[n].row + 1
        /\ calls[n + 1].ic > calls[n].ic =>
              /\ calls[n + 1].ic = calls[n].ic + BlockSize
              /\ calls[n + 1].row = calls[1].row
              /\ calls[n].row = calls[Len(calls)].row

(* C28: in the NCHWc, NCHW and pointwise executors the calls contributing  *)
(* to one output row unit are issued by a single worker, in strictly       *)
(* ascending input channel order (0, B, 2B, ... / 0, 1, 2, ... / 0, 128,   *)
(* ...), each channel tile exactly once up to InputChannels; the NCHWc     *)
(* executor, when an iteration takes several rows, issues all rows of one  *)
(* channel block before the first row of the next block.                   *)
C28_AccumulationOrder ==
    (pc = "executing" /\ GroupedRoutine) =>
        \A i \in Threads :
            /\ \A unit \in UnitsIssued(i) :
                  AscendingTiles(CallsFor(workers[i].calls, unit))
            /\ \A n \in DOMAIN workers[i].calls :
                  \A o \in KernelBlocks(WorkBlock, workers[i].calls[n]) :
                      Output[o].writers = {i} /\ Output[o].passes = 1
            /\ ThreadedRoutine = "Nchwc" => RowsInnerBlocksOuter(workers[i].calls)

C28_Witness ==
    /\ pc = "executing"
    /\ ThreadedRoutine = "Nchwc"
    /\ WorkBlock.InputChannels = 2 * BlockSize
    /\ \E i \in Threads :
          /\ Len(workers[i].calls) = 6
          /\ workers[i].calls[1].ic = 0
          /\ workers[i].calls[1].row = 0
          /\ workers[i].calls[2].ic = 0
          /\ workers[i].calls[2].row = 1
          /\ workers[i].calls[4].ic = BlockSize
          /\ workers[i].calls[4].row = 0
          /\ Len(CallsFor(workers[i].calls, workers[i].calls[2].Output)) = 2

(***************************************************************************)
(* The loop head of the grouped executors: the worker's position, and the  *)
(* rows its next iteration takes, read off the iteration itself.           *)
(***************************************************************************)
RowsThisIteration(i) ==
    workers[i].WorkRemaining
        - Iteration(ThreadedRoutine, WorkBlock, workers[i]).WorkRemaining

RECURSIVE FilterCountSum(_, _)
FilterCountSum(wb, FilterSet) ==
    IF FilterSet >= FilterSetCount(wb) THEN 0
    ELSE ComputeFilterCount(wb, FilterSet) + FilterCountSum(wb, FilterSet + 1)

OutputBlocksPerGroup == WorkBlock.OutputChannels \div BlockSize

(* C29: at the head of every loop iteration of the NCHWc, NCHW and         *)
(* pointwise executors (WorkRemaining > 0), for every worker, ph is below  *)
(* OutputHeight, FilterSet below FilterSetCount, Group below GroupCount,   *)
(* FilterCount is between 1 and 4, and the iteration takes at least one    *)
(* row and at most min(WorkRemaining, OutputHeight - ph); FilterSetCount   *)
(* is ceil((C_out / BlockSize) / 4) and the FilterCount values of the      *)
(* filter sets of a group sum to C_out / BlockSize.                        *)
C29_GroupedLoopInvariants ==
    (pc = "executing" /\ GroupedRoutine) =>
        /\ WorkBlock.OutputChannels % BlockSize = 0
        /\ OutputBlocksPerGroup >= 1
        /\ FilterSetCount(WorkBlock) = CeilDiv(OutputBlocksPerGroup, 4)
        /\ FilterCountSum(WorkBlock, 0) = OutputBlocksPerGroup
        /\ \A i \in Threads :
              workers[i].pc = "loop" =>
                  /\ workers[i].WorkRemaining > 0
                  /\ workers[i].ph < OutputHeight(WorkBlock)
                  /\ workers[i].FilterSet < FilterSetCount(WorkBlock)
                  /\ workers[i].Group < WorkBlock.GroupCount
                  /\ workers[i].FilterCount \in 1..4
                  /\ workers[i].FilterCount
                        = Min(4, OutputBlocksPerGroup - 4 * workers[i].FilterSet)
                  /\ RowsThisIteration(i) >= 1
                  /\ RowsThisIteration(i)
                        <= Min(workers[i].WorkRemaining,
                               OutputHeight(WorkBlock) - workers[i].ph)

C29_Witness ==
    /\ pc = "executing"
    /\ GroupedRoutine
    /\ OutputBlocksPerGroup = 5
    /\ FilterSetCount(WorkBlock) = 2
    /\ \E i \in Threads :
          /\ workers[i].pc = "loop"
          /\ workers[i].FilterSet = 1
          /\ workers[i].FilterCount = 1
          /\ workers[i].ph >= 1
          /\ workers[i].calls # <<>>
          /\ RowsThisIteration(i) >= 1

(***************************************************************************)
(* The left-pad fix-up of MlasPrepareNchwcWorkBlock: the interior count    *)
(* and the left-pad count of a dimension as computed before the fix-up.    *)
(***************************************************************************)
InteriorComputed(dim) ==
    OutputCountOf(DimOf(dim).I, SpanValueOf(DimOf(dim).D, DimOf(dim).K), DimOf(dim).S)

LeftPadComputed(dim) == SubSize(WithLeftPadComputed(dim), InteriorComputed(dim))

FixupApplied(dim) == NeedsLeftPadFixup(LeftPadComputed(dim), DimOf(dim).PL)

(* C30: for every valid shape (output extent and stride at least 1),       *)
(* whenever MlasPrepareNchwcWorkBlock applies the left-pad fix-up to a     *)
(* dimension (computed left-pad count 0 with PaddingLeft > 0), the         *)
(* interior count before the decrement is at least 1, so the decrement     *)
(* does not wrap: the stored interior count is the computed one minus 1,   *)
(* between 0 and the output extent, and the stored left-pad count is 1.    *)
C30_FixupNeverUnderflows ==
    Prepared =>
        \A dim \in SpatialDims :
            (OutputExtent(DimOf(dim)) >= 1 /\ DimOf(dim).S >= 1 /\ FixupApplied(dim)) =>
                /\ InteriorComputed(dim) >= 1
                /\ WorkBlock.OutputCount[dim] = InteriorComputed(dim) - 1
                /\ WorkBlock.OutputCount[dim] \in 0..(OutputExtent(DimOf(dim)) - 1)
                /\ WorkBlock.OutputCountLeftPad[dim] = 1

C30_Witness ==
    /\ Prepared
    /\ DimOf(HeightShapeIndex) = Dim(1, 1, 1, 1, 0, 2)
    /\ FixupApplied(HeightShapeIndex)
    /\ InteriorComputed(HeightShapeIndex) = 1
    /\ WorkBlock.OutputCount[HeightShapeIndex] = 0
    /\ WorkBlock.OutputCountLeftPad[HeightShapeIndex] = 1

(***************************************************************************)
(* Dispatches with null shape arrays.  MlasNchwcConv and MlasNchwcPool     *)
(* hand their KernelShape, DilationShape, Padding and StrideShape pointers *)
(* to MlasPrepareNchwcWorkBlock unchanged, and each may be null.  The      *)
(* caller's output extent is that of the shape the work block then         *)
(* describes: the dimension with the defaults in place of the null arrays. *)
(***************************************************************************)
ArrayNames == { "KernelShape", "DilationShape", "Padding", "StrideShape" }

EffectiveDim(d, nulls) ==
    Dim(d.I,
        IF "KernelShape" \in nulls THEN d.I ELSE d.K,
        IF "DilationShape" \in nulls THEN 1 ELSE d.D,
        IF "Padding" \in nulls THEN 0 ELSE d.PL,
        IF "Padding" \in nulls THEN 0 ELSE d.PR,
        IF "StrideShape" \in nulls THEN 1 ELSE d.S)

WithNullArrays(a, nulls) ==
    [ name \in DOMAIN a |->
        IF name \in nulls THEN NullShape ELSE a[name] ]

NullableConvArgs(ch, H, W, nulls) ==
    WithNullArrays(ConvArgs(1, ch, EffectiveDim(H, nulls), EffectiveDim(W, nulls),
                            TRUE, 0, MlasIdentityActivation, 1, 0, 3), nulls)

NullablePoolArgs(H, W, nulls) ==
    WithNullArrays(PoolArgs(1, 8, EffectiveDim(H, nulls), EffectiveDim(W, nulls),
                            "Maximum", 1, 0, 3), nulls)

DefaultsPoolDims == { d \in ShapeDims : d.I <= 3 /\ d.K <= 2 /\ d.PL <= 1 }

DefaultsConvDims == { Dim(3, 3, 1, 1, 1, 1), Dim(2, 1, 1, 0, 0, 1), Dim(3, 2, 2, 1, 0, 2) }

DefaultsWidths == { UnitDim, Dim(2, 1, 1, 0, 0, 1) }

ValidNulls(H, W) ==
    { nulls \in SUBSET ArrayNames :
        ValidDim(EffectiveDim(H, nulls)) /\ ValidDim(EffectiveDim(W, nulls)) }

DefaultsFamily ==
    UNION { { NullablePoolArgs(H, UnitDim, nulls) : nulls \in ValidNulls(H, UnitDim) } :
              H \in DefaultsPoolDims }
    \cup
    UNION { { NullableConvArgs(ch, shape[1], shape[2], nulls) :
                ch \in ShapeChannels, nulls \in ValidNulls(shape[1], shape[2]) } :
              shape \in DefaultsConvDims \X DefaultsWidths }

InitDefaults == InitDispatch(DefaultsFamily)

SpecDefaults == InitDefaults /\ [][Next]_vars

NullArrays == { name \in ArrayNames : args[name] = NullShape }

DefaultOr(name, index, default) ==
    IF name \in NullArrays THEN default ELSE args[name][index]

TripleOf(dim) ==
    <<WorkBlock.OutputCountLeftPad[dim], WorkBlock.OutputCount[dim],
      WorkBlock.OutputCountRightPad[dim]>>

RECURSIVE ExtentProduct(_, _)
ExtentProduct(shape, n) ==
    IF n = 0 THEN 1 ELSE shape[n + 1] * ExtentProduct(shape, n - 1)

(* C31: when the kernel, dilation, padding or stride array is null,        *)
(* MlasPrepareNchwcWorkBlock stores, for every spatial dimension, kernel = *)
(* input extent, dilation = 1, both pads = 0, stride = 1, and the values   *)
(* of the arrays that are supplied; with all four null and an output       *)
(* extent of 1 the stored triple of every dimension is (0, 1, 0); and      *)
(* InputSize and OutputSize are the products of the spatial input and      *)
(* output extents.                                                         *)
C31_PreprocessorDefaults ==
    Prepared =>
        /\ \A dim \in SpatialDims :
              /\ WorkBlock.KernelShape[dim]
                    = DefaultOr("KernelShape", dim, args.InputShape[dim + 2])
              /\ WorkBlock.DilationShape[dim] = DefaultOr("DilationShape", dim, 1)
              /\ WorkBlock.Padding[dim] = DefaultOr("Padding", dim, 0)
              /\ WorkBlock.Padding[dim + args.Dimensions]
                    = DefaultOr("Padding", dim + args.Dimensions, 0)
              /\ WorkBlock.StrideShape[dim] = DefaultOr("StrideShape", dim, 1)
              /\ (NullArrays = ArrayNames /\ args.OutputShape[dim + 2] = 1) =>
                    TripleOf(dim) = <<0, 1, 0>>
        /\ WorkBlock.InputSize = ExtentProduct(args.InputShape, args.Dimensions)
        /\ WorkBlock.OutputSize = ExtentProduct(args.OutputShape, args.Dimensions)

C31_Witness ==
    /\ Prepared
    /\ args.op = "pool"
    /\ NullArrays = ArrayNames
    /\ args.InputShape[2] = 3
    /\ args.OutputShape[2] = 1
    /\ WorkBlock.KernelShape[0] = 3
    /\ WorkBlock.StrideShape[0] = 1
    /\ TripleOf(0) = <<0, 1, 0>>
    /\ TripleOf(1) = <<0, 1, 0>>
    /\ WorkBlock.InputSize = 3

====
